---- MODULE Spec2Model ----
(***************************************************************************)
(* A model of the audio-flow transcription service:                        *)
(*   - utils/retry            retryWithBackoff (the Backoff Executor)      *)
(*   - services/audio, transcription, azure-speech (the batch pipelines)   *)
(*   - adapters (transport / recognition adapters and their selection)     *)
(*   - websocket/transcription-stream (the streaming session)              *)
(*   - models/transcription (the store and its list query)                 *)
(* Nine specifications share the variables: SpecRetry runs one call of     *)
(* retryWithBackoff on an arbitrary policy and operation, SpecPipeline     *)
(* runs one request of a batch pipeline, Spec runs one streaming session,  *)
(* SpecQuery runs list queries, each made of two reads, against a store    *)
(* that grows meanwhile, SpecTestRun is SpecQuery with clearDatabase,      *)
(* SpecCalendar runs list queries for any number of days under any local   *)
(* calendar (clock changes, day of the month) on a quiet store,            *)
(* SpecRecognizer runs one call of RealSpeechClient.transcribe,            *)
(* SpecEmission runs the emission loop of a session that keeps receiving   *)
(* chunks, SpecLive is Spec with timers that fire and writes that settle.  *)
(***************************************************************************)
EXTENDS Integers, Sequences, FiniteSets

VARIABLES
    \* ---- retryWithBackoff (one invocation) ----
    rPc,        \* "idle" | "call" | "await" | "sleep" | "returned" | "raised"
    rCtx,       \* who runs the executor: "standalone" | "download" | "recognize"
    rPolicy,    \* RetryOptions: maxAttempts (a whole number, or the one below
                \* it and `fractional`), initialDelay, maxDelay, hasOnRetry
    rAttempt,   \* the loop variable `attempt`
    rLog,       \* what the invocation did, in order: call / fail / onRetry / sleep / ok
    rResult,    \* the value returned, or the value thrown to the caller
    \* ---- process configuration and adapter selection ----
    cfg,        \* isTest, speechKey, speechRegion, and config.retry
    \* ---- one batch request ----
    pPc,        \* "idle" | "download" | "recognize" | "create" | "done" | "failed"
    pReq,       \* service, audioUrl, language
    pText,      \* the transcription text produced
    pOut,       \* the response returned or the error propagated
    pCalls,     \* adapter invocations of the request: http, speechReal, speechMock
    \* ---- the store (TranscriptionModel) ----
    store,      \* sequence of persisted records
    \* ---- one streaming session ----
    sock,       \* the connection's readyState: "open" | "closing" | "closed"
    closeFrameReceived, \* the peer's close frame has come in: nothing more is read
    isComplete, chunkCount, audioChunks,
    loop,       \* processChunks: "none" | "sleeping" | "done"
    loopsStarted,
    fin,        \* the message handlers suspended in the last-chunk branch
    sent,       \* the outbound messages, in the order they went out
    inCount,    \* inbound messages received so far
    lastSeen,   \* number of chunks with isLast = true received so far
    ev,         \* the last thing that happened in the session (kind of input)
    \* ---- the clock and the list query ----
    now,        \* the current date, in days
    qOut,       \* the arguments and the result of the last list query
    \* ---- one call of RealSpeechClient.transcribe ----
    tPc,        \* "idle" | "listening" | "failed" (the set-up threw)
    tText,      \* `transcription`: the recognized fragments, in arrival order
    tOutcome,   \* what the promise settled with, None while it is pending
    tTimer,     \* the 60 s timer: "none" | "pending" | "fired"
    tLog        \* the provider events and the timer event, in the order they came

retryVars == <<rPc, rCtx, rPolicy, rAttempt, rLog, rResult>>
pipeVars == <<pPc, pReq, pText, pOut, pCalls>>
streamVars == <<sock, closeFrameReceived, isComplete, chunkCount, audioChunks, loop, loopsStarted,
                fin, sent, inCount, lastSeen, ev>>
queryVars == <<now, qOut>>
recogVars == <<tPc, tText, tOutcome, tTimer, tLog>>
vars == <<retryVars, cfg, pipeVars, store, streamVars, queryVars, recogVars>>

----------------------------------------------------------------------------
(* Bounds of the model *)

MaxAttemptsBound == 3
MaxInitialDelay == 3
MaxDelayBound == 5
MaxMsgs == 3
MaxSent == 5
DayLength == 2
MaxRecords == 2
MaxEvents == 4
MaxChunks == 11

----------------------------------------------------------------------------
(* Values *)

None == [tag |-> "none"]

\* A value an operation can fail with: an Error object (of some class) or a
\* value that is not an Error object (a thrown string); msg is its message,
\* respectively String(value).
ErrorObj(cls, msg) == [isError |-> TRUE, cls |-> cls, msg |-> msg]
NonError(msg) == [isError |-> FALSE, cls |-> "string", msg |-> msg]

Min(a, b) == IF a <= b THEN a ELSE b

RECURSIVE Pow2(_)
Pow2(n) == IF n <= 0 THEN 1 ELSE 2 * Pow2(n - 1)

----------------------------------------------------------------------------
(* utils/retry: retryWithBackoff *)

\* faulty variant: every failure is replaced by a generic error
NormalizeError_Generic(e) == ErrorObj("Error", "Unknown error")

\* line 18: lastError = error instanceof Error ? error : new Error(String(error))
NormalizeError(e) == IF e.isError THEN e ELSE ErrorObj("Error", e.msg)

\* line 26: Math.min(initialDelay * Math.pow(2, attempt - 1), maxDelay)
BackoffDelay(policy, attempt) ==
    Min(policy.initialDelay * Pow2(attempt - 1), policy.maxDelay)

\* line 21: the attempt after which the error is thrown instead of retried;
\* `attempt === maxAttempts` is never true of a maxAttempts that is not whole
IsLastAttempt(policy, attempt) == ~policy.fractional /\ attempt = policy.maxAttempts

\* faulty variant: the observer is given a 0-based attempt number
ObserverEvents_ZeroBased(policy, attempt, err) ==
    IF policy.hasOnRetry
    THEN <<[e |-> "onRetry", attempt |-> attempt - 1, err |-> err]>>
    ELSE <<>>

\* lines 37-39: the optional observer
ObserverEvents(policy, attempt, err) ==
    IF policy.hasOnRetry THEN <<[e |-> "onRetry", attempt |-> attempt, err |-> err]>>
    ELSE <<>>

\* The outcomes the wrapped operation can have, by who runs the executor.
StandaloneOk == {[text |-> "r1"], [text |-> "r2"]}
StandaloneFail == {ErrorObj("Error", "m1"), ErrorObj("Error", "m2"), NonError("m1")}

\* line 12 and 18: lastError when the loop is left, unset if no attempt failed
LastError(log) ==
    LET fails == {i \in 1..Len(log) : log[i].e = "fail"}
    IN IF fails = {}
       THEN [isError |-> FALSE, cls |-> "undefined", msg |-> "undefined"]
       ELSE NormalizeError(log[CHOOSE i \in fails : \A j \in fails : j <= i].err)

\* the executor is entered: line 11-14
RetryBegin(ctx, policy) ==
    /\ rPc' = "call"
    /\ rCtx' = ctx
    /\ rPolicy' = policy
    /\ rAttempt' = 1
    /\ rLog' = <<>>
    /\ rResult' = None

\* line 14 loop test and line 16 `fn()`: the operation is invoked; when the loop
\* test fails (at once if maxAttempts < 1, after the last sleep if maxAttempts
\* is not whole) line 47 throws lastError.
RetryInvoke ==
    /\ rPc = "call"
    /\ IF rAttempt <= rPolicy.maxAttempts
       THEN /\ rPc' = "await"
            /\ rLog' = Append(rLog, [e |-> "call", attempt |-> rAttempt])
            /\ rResult' = rResult
       ELSE /\ rPc' = "raised"
            /\ rLog' = rLog
            /\ rResult' = LastError(rLog)
    /\ UNCHANGED <<rCtx, rPolicy, rAttempt>>

\* line 16: the operation resolved; its result is returned at once
RetrySucceed(v) ==
    /\ rPc = "await"
    /\ rPc' = "returned"
    /\ rResult' = v
    /\ rLog' = Append(rLog, [e |-> "ok", attempt |-> rAttempt, value |-> v])
    /\ UNCHANGED <<rCtx, rPolicy, rAttempt>>

\* faulty variant: the delay before the next attempt is not slept
RetryFail_ForgetsSleep(x) ==
    /\ rPc = "await"
    /\ LET lastError == NormalizeError(x)
           failed == Append(rLog, [e |-> "fail", attempt |-> rAttempt, err |-> x])
       IN IF IsLastAttempt(rPolicy, rAttempt)
          THEN /\ rPc' = "raised"
               /\ rResult' = lastError
               /\ rLog' = failed
          ELSE /\ rPc' = "sleep"
               /\ rResult' = rResult
               /\ rLog' = failed \o ObserverEvents(rPolicy, rAttempt, lastError)
    /\ UNCHANGED <<rCtx, rPolicy, rAttempt>>

\* lines 17-42: the operation rejected with x
RetryFail(x) ==
    /\ rPc = "await"
    /\ LET lastError == NormalizeError(x)
           failed == Append(rLog, [e |-> "fail", attempt |-> rAttempt, err |-> x])
       IN IF IsLastAttempt(rPolicy, rAttempt)
          THEN /\ rPc' = "raised"
               /\ rResult' = lastError
               /\ rLog' = failed
          ELSE /\ rPc' = "sleep"
               /\ rResult' = rResult
               /\ rLog' = failed
                          \o ObserverEvents(rPolicy, rAttempt, lastError)
                          \o <<[e |-> "sleep", attempt |-> rAttempt,
                                delay |-> BackoffDelay(rPolicy, rAttempt)]>>
    /\ UNCHANGED <<rCtx, rPolicy, rAttempt>>

\* line 42 resumes and line 14 increments the attempt
RetryWake ==
    /\ rPc = "sleep"
    /\ rPc' = "call"
    /\ rAttempt' = rAttempt + 1
    /\ UNCHANGED <<rCtx, rPolicy, rLog, rResult>>

----------------------------------------------------------------------------
(* config/environment and adapters/index: configuration and adapter selection *)

\* A credential is undefined ("unset"), the empty string, or a real value.
CredentialValues == {"unset", "", "secret"}

\* JavaScript truthiness of an optional string
Truthy(x) == x \notin {"unset", ""}

\* faulty variant: the key alone counts as credentials
hasAzureCredentials_KeyOnly(c) == Truthy(c.speechKey)

\* hasAzureCredentials(): Boolean(env.AZURE_SPEECH_KEY && env.AZURE_SPEECH_REGION)
hasAzureCredentials(c) == Truthy(c.speechKey) /\ Truthy(c.speechRegion)

\* createHttpClient(): mock in the test environment, real otherwise
createHttpClient(c) == IF c.isTest THEN "MockHttpClient" ELSE "RealHttpClient"

\* createSpeechClient(): real if config.azure.isConfigured, mock otherwise
createSpeechClient(c) ==
    IF hasAzureCredentials(c) THEN "RealSpeechClient" ELSE "MockSpeechClient"

httpClient == createHttpClient(cfg)
speechClient == createSpeechClient(cfg)

\* ISpeechClient.isConfigured(): RealSpeechClient tests its two credentials,
\* MockSpeechClient answers true ("Mock is always configured").
isConfigured(client, c) ==
    IF client = "RealSpeechClient"
    THEN Truthy(c.speechKey) /\ Truthy(c.speechRegion)
    ELSE TRUE

DefaultInitialDelay == 1000
DefaultMaxDelay == 10000
AzureMaxAttempts == 3
AzureInitialDelay == 1000
AzureMaxDelay == 10000

\* config.retry as AudioService.downloadAudio hands it to the executor (no observer)
ConfigRetryPolicy(c) ==
    [maxAttempts |-> c.maxAttempts, fractional |-> c.fractional,
     initialDelay |-> c.initialDelay, maxDelay |-> c.maxDelay, hasOnRetry |-> FALSE]

\* the literal policy of AzureSpeechService.transcribeAudio (with its observer)
AzureRetryPolicy ==
    [maxAttempts |-> AzureMaxAttempts, fractional |-> FALSE,
     initialDelay |-> AzureInitialDelay, maxDelay |-> AzureMaxDelay,
     hasOnRetry |-> TRUE]

\* RETRY_INITIAL_DELAY and RETRY_MAX_DELAY: the defaults, and values the schema
\* accepts as well (any number, in any order)
RetryDelays ==
    {[initialDelay |-> DefaultInitialDelay, maxDelay |-> DefaultMaxDelay],
     [initialDelay |-> 2000, maxDelay |-> 100],
     [initialDelay |-> 50, maxDelay |-> 60],
     [initialDelay |-> 0, maxDelay |-> 0],
     [initialDelay |-> -1, maxDelay |-> 5]}

\* MAX_RETRY_ATTEMPTS is any number: maxAttempts is the whole number it is or
\* the whole number next below it, fractional says that it is not whole (NaN
\* makes both tests of the loop false, as -0.5 does)
Configs ==
    {[isTest |-> t, speechKey |-> k, speechRegion |-> r,
      maxAttempts |-> n, fractional |-> f,
      initialDelay |-> d.initialDelay, maxDelay |-> d.maxDelay] :
        t \in BOOLEAN, k \in CredentialValues, r \in CredentialValues,
        n \in (-1)..MaxAttemptsBound, f \in BOOLEAN, d \in RetryDelays}

----------------------------------------------------------------------------
(* URLs, as `new URL(url)` sees them *)

Urls ==
    { [name |-> "https://example.com/a.mp3", parses |-> TRUE, protocol |-> "https:", file |-> "a.mp3"],
      [name |-> "http://x/y?z=1", parses |-> TRUE, protocol |-> "http:", file |-> "y"],
      [name |-> "https://example.com/", parses |-> TRUE, protocol |-> "https:", file |-> ""],
      [name |-> "ftp://x", parses |-> TRUE, protocol |-> "ftp:", file |-> ""],
      [name |-> "not-a-url", parses |-> FALSE, protocol |-> "", file |-> ""],
      [name |-> "", parses |-> FALSE, protocol |-> "", file |-> ""] }

\* faulty variant: any URL that parses is accepted, whatever its protocol
isValidUrl_AnyProtocol(url) == url.parses

\* utils/retry isValidUrl
isValidUrl(url) == url.parses /\ url.protocol \in {"http:", "https:"}

\* utils/retry getFilenameFromUrl
getFilenameFromUrl(url) ==
    IF url.parses /\ url.file # "" THEN url.file ELSE "unknown"

Languages == {"en-US", "fr-FR"}

----------------------------------------------------------------------------
(* The store: TranscriptionModel.create *)

\* A text is known by the path that produced it; `empty` says it is ''.
Text(origin, key) == [origin |-> origin, key |-> key, empty |-> FALSE]
EmptyText(origin) == [origin |-> origin, key |-> "", empty |-> TRUE]

\* faulty variant: the schema does not require a transcription
SchemaAccepts_Anything(doc) == TRUE

\* schema validation: transcription is required (the empty string fails `required`)
SchemaAccepts(doc) == ~doc.transcription.empty

\* the document create() inserts: the store assigns the id and, with
\* `timestamps: true`, createdAt
NewRecord(doc, st) == [doc EXCEPT !.id = Len(st) + 1, !.createdAt = now]

Doc(audioUrl, transcription, source, language, metadata) ==
    [id |-> 0, audioUrl |-> audioUrl, transcription |-> transcription,
     source |-> source, language |-> language, metadata |-> metadata,
     createdAt |-> 0]

----------------------------------------------------------------------------
(* services: AudioService.downloadAudio, TranscriptionService.transcribeAudio,
   AzureSpeechService.transcribeAudio *)

InvalidUrlError(url) == ErrorObj("InvalidUrlError", url.name)
DownloadError(msg) == ErrorObj("DownloadError", msg)

\* new ExternalServiceError(message, serviceName)
ExternalServiceError(msg, service) ==
    [isError |-> TRUE, cls |-> "ExternalServiceError", msg |-> msg, service |-> service]

\* serviceName.toUpperCase() of the service names the adapters pass
ToUpperCase(name) ==
    IF name = "Azure Speech" THEN "AZURE SPEECH"
    ELSE IF name = "Azure" THEN "AZURE"
    ELSE name

\* statusCode as the constructors set it, and errorHandler's fallback for an
\* error that is no ApplicationError and has no statusCode of its own
StatusCode(e) ==
    IF e.cls \in {"ValidationError", "InvalidUrlError"} THEN 400
    ELSE IF e.cls = "NotFoundError" THEN 404
    ELSE IF e.cls = "ExternalServiceError" THEN 503
    ELSE 500

\* the code of the error payload
ErrorCode(e) ==
    IF e.cls = "ValidationError" THEN "VALIDATION_ERROR"
    ELSE IF e.cls = "InvalidUrlError" THEN "INVALID_URL"
    ELSE IF e.cls = "NotFoundError" THEN "NOT_FOUND"
    ELSE IF e.cls = "ExternalServiceError" THEN ToUpperCase(e.service) \o "_ERROR"
    ELSE IF e.cls = "DownloadError" THEN "DOWNLOAD_ERROR"
    ELSE "INTERNAL_ERROR"

\* what the adapter call wrapped by the executor can resolve with
AdapterOk(ctx, client, req) ==
    IF ctx = "download"
    THEN {[text |-> "audio-data"]}
    ELSE IF client = "MockSpeechClient"
         THEN {[text |-> Text("MockSpeechClient", req.language)]}
         ELSE {[text |-> Text("RealSpeechClient", "recognized")],
               [text |-> EmptyText("RealSpeechClient")]}

\* what it can reject with: the mock adapters never fail; the real speech
\* adapter rejects with an ExternalServiceError (lines 74, 91, 106) or with
\* whatever the SDK threw while the recognizer was set up (lines 109-112)
AdapterFail(ctx, client) ==
    IF ctx = "download"
    THEN IF client = "MockHttpClient" THEN {}
         ELSE {ErrorObj("AxiosError", "timeout"), ErrorObj("AxiosError", "status 404")}
    ELSE IF client = "MockSpeechClient" THEN {}
         ELSE {ExternalServiceError("canceled", "Azure Speech"),
               ExternalServiceError("Transcription timeout", "Azure Speech"),
               ErrorObj("Error", "sdk threw")}

\* faulty variant: after a failed attempt recognition falls back to the mock adapter
CtxClient_FallsBack(ctx) ==
    IF ctx = "download" THEN httpClient
    ELSE IF rAttempt > 1 THEN "MockSpeechClient" ELSE speechClient

CtxClient(ctx) == IF ctx = "download" THEN httpClient ELSE speechClient

\* TranscriptionService.generateMockTranscription
generateMockTranscription(url) == Text("template", getFilenameFromUrl(url))

\* AudioService.downloadAudio catch block (lines 150-156 of the service file)
DownloadFailure(e) ==
    IF e.cls \in {"InvalidUrlError", "DownloadError"} THEN e
    ELSE DownloadError(IF e.isError THEN e.msg ELSE "Unknown download error")

\* AzureSpeechService.transcribeAudio line 33
AzureSource == IF isConfigured(speechClient, cfg) THEN "azure" ELSE "mock"

\* the document each service hands to TranscriptionModel.create
ServiceDoc(req, text) ==
    IF req.service = "TranscriptionService"
    THEN Doc(req.audioUrl.name, text, "mock", "none", None)
    ELSE Doc(req.audioUrl.name, text, AzureSource, req.language, None)

\* a request enters transcribeAudio, which calls audioService.downloadAudio
PipeRequest(svc, url, lang) ==
    /\ pPc = "idle"
    /\ pReq' = [service |-> svc, audioUrl |-> url, language |-> lang]
    /\ IF ~isValidUrl(url)
       THEN /\ pPc' = "failed"
            /\ pOut' = [tag |-> "error", err |-> InvalidUrlError(url)]
            /\ UNCHANGED retryVars
       ELSE /\ pPc' = "download"
            /\ pOut' = pOut
            /\ RetryBegin("download", ConfigRetryPolicy(cfg))
    /\ UNCHANGED <<pText, pCalls, cfg, queryVars, recogVars, store, streamVars>>

\* the executor invokes the adapter
PipeInvoke ==
    /\ pPc \in {"download", "recognize"}
    /\ RetryInvoke
    /\ pCalls' = IF rAttempt <= rPolicy.maxAttempts
                 THEN [pCalls EXCEPT ![CtxClient(rCtx)] = @ + 1]
                 ELSE pCalls
    /\ UNCHANGED <<pPc, pReq, pText, pOut, cfg, queryVars, recogVars, store, streamVars>>

PipeResolve ==
    /\ pPc \in {"download", "recognize"}
    /\ \E v \in AdapterOk(rCtx, CtxClient(rCtx), pReq) : RetrySucceed(v)
    /\ UNCHANGED <<pipeVars, cfg, queryVars, recogVars, store, streamVars>>

PipeReject ==
    /\ pPc \in {"download", "recognize"}
    /\ \E x \in AdapterFail(rCtx, CtxClient(rCtx)) : RetryFail(x)
    /\ UNCHANGED <<pipeVars, cfg, queryVars, recogVars, store, streamVars>>

PipeWake ==
    /\ pPc \in {"download", "recognize"}
    /\ RetryWake
    /\ UNCHANGED <<pipeVars, cfg, queryVars, recogVars, store, streamVars>>

\* downloadAudio returned: the mock service builds its text, the provider
\* service enters its own executor around client.transcribe
PipeDownloadReturned ==
    /\ pPc = "download" /\ rPc = "returned"
    /\ IF pReq.service = "TranscriptionService"
       THEN /\ pPc' = "create"
            /\ pText' = generateMockTranscription(pReq.audioUrl)
            /\ UNCHANGED retryVars
       ELSE /\ pPc' = "recognize"
            /\ pText' = pText
            /\ RetryBegin("recognize", AzureRetryPolicy)
    /\ UNCHANGED <<pReq, pOut, pCalls, cfg, queryVars, recogVars, store, streamVars>>

\* faulty variant: a failed download is swallowed and recognition starts anyway
PipeDownloadRaised_Continues ==
    /\ pPc = "download" /\ rPc = "raised"
    /\ pPc' = "recognize"
    /\ RetryBegin("recognize", AzureRetryPolicy)
    /\ UNCHANGED <<pReq, pText, pOut, pCalls, cfg, queryVars, recogVars, store, streamVars>>

\* the download executor threw: downloadAudio rethrows a download failure
PipeDownloadRaised ==
    /\ pPc = "download" /\ rPc = "raised"
    /\ pPc' = "failed"
    /\ pOut' = [tag |-> "error", err |-> DownloadFailure(rResult)]
    /\ UNCHANGED <<pReq, pText, pCalls, retryVars, cfg, queryVars, recogVars, store, streamVars>>

\* AzureSpeechService lines 61-62
PipeRecognizeReturned ==
    /\ pPc = "recognize" /\ rPc = "returned"
    /\ pPc' = "create"
    /\ pText' = rResult.text
    /\ UNCHANGED <<pReq, pOut, pCalls, retryVars, cfg, queryVars, recogVars, store, streamVars>>

\* faulty variant: a failed recognition stores a placeholder record before rethrowing
PipeRecognizeRaised_StoresPlaceholder ==
    /\ pPc = "recognize" /\ rPc = "raised"
    /\ pPc' = "failed"
    /\ pOut' = [tag |-> "error", err |-> rResult]
    /\ store' = Append(store, NewRecord(ServiceDoc(pReq, Text("placeholder", "failed")), store))
    /\ UNCHANGED <<pReq, pText, pCalls, retryVars, cfg, queryVars, recogVars, streamVars>>

\* AzureSpeechService lines 63-66: log and rethrow
PipeRecognizeRaised ==
    /\ pPc = "recognize" /\ rPc = "raised"
    /\ pPc' = "failed"
    /\ pOut' = [tag |-> "error", err |-> rResult]
    /\ UNCHANGED <<pReq, pText, pCalls, retryVars, cfg, queryVars, recogVars, store, streamVars>>

\* TranscriptionModel.create resolved: the record is persisted and returned
PipeCreateOk ==
    /\ pPc = "create"
    /\ SchemaAccepts(ServiceDoc(pReq, pText))
    /\ LET rec == NewRecord(ServiceDoc(pReq, pText), store)
       IN /\ store' = Append(store, rec)
          /\ pOut' = [tag |-> "response", id |-> rec.id, source |-> rec.source,
                      transcription |-> rec.transcription]
    /\ pPc' = "done"
    /\ UNCHANGED <<pReq, pText, pCalls, retryVars, cfg, queryVars, recogVars, streamVars>>

\* TranscriptionModel.create rejected (validation or the database): nothing is stored
PipeCreateFail ==
    /\ pPc = "create"
    /\ pPc' = "failed"
    /\ pOut' = [tag |-> "error",
                err |-> IF SchemaAccepts(ServiceDoc(pReq, pText))
                        THEN ErrorObj("MongoError", "write failed")
                        ELSE ErrorObj("MongooseValidationError",
                                      "Transcription text is required")]
    /\ UNCHANGED <<pReq, pText, pCalls, retryVars, cfg, queryVars, recogVars, store, streamVars>>

----------------------------------------------------------------------------
(* websocket/transcription-stream: transcriptionWebSocket *)

SessionId == "session-1"
VocabularyLength == 20

\* the inbound messages a client can send, as JSON.parse and `data.type` see them
ChunkMsg(isLast) == [kind |-> "chunk", isLast |-> isLast]
Inbound ==
    { ChunkMsg(FALSE), ChunkMsg(TRUE),
      [kind |-> "invalidJson", isLast |-> FALSE],   \* 'invalid-json'
      [kind |-> "jsonNull", isLast |-> FALSE],      \* 'null'
      [kind |-> "jsonScalar", isLast |-> FALSE],    \* '5'
      [kind |-> "otherType", isLast |-> FALSE],     \* '{"type":"ping"}'
      [kind |-> "noType", isLast |-> FALSE] }       \* '{}'

\* line 170: JSON.parse(message.toString()) throws on text that is not JSON
JsonParseThrows(m) == m.kind = "invalidJson"

\* line 172: reading `.type` of null throws a TypeError; of a scalar it is undefined
TypeReadThrows(m) == m.kind = "jsonNull"
IsChunkType(m) == m.kind = "chunk"

\* faulty variant: the handler does not test `data.type` before counting
HandlerBranch_NoTypeTest(m) ==
    IF JsonParseThrows(m) \/ TypeReadThrows(m) THEN "catch" ELSE "chunk"

\* which branch of the handler a message takes: "catch", "chunk" or "warn"
HandlerBranch(m) ==
    IF JsonParseThrows(m) \/ TypeReadThrows(m) THEN "catch"
    ELSE IF IsChunkType(m) THEN "chunk"
    ELSE "warn"

WelcomeMessage ==
    [type |-> "partial", text |-> "Connected", words |-> 0, confidence |-> 100]

\* faulty variant: no cap at the length of the vocabulary
generatePartialTranscription_Uncapped(chunks) == Len(chunks) * 2

\* generatePartialTranscription: the first min(2 * chunks, 20) words
generatePartialTranscription(chunks) == Min(Len(chunks) * 2, VocabularyLength)

\* lines 142-148; the confidence in hundredths: min(0.5 + n * 0.05, 0.95)
PartialMessage(chunks) ==
    [type |-> "partial", text |-> "words",
     words |-> generatePartialTranscription(chunks),
     confidence |-> Min(50 + Len(chunks) * 5, 95)]

\* generateFinalTranscription: names the number of chunks and the session id
generateFinalTranscription(chunks) ==
    [origin |-> "stream", key |-> SessionId, empty |-> FALSE, chunks |-> Len(chunks)]

\* faulty variant: the final message names an id that is not the record's
FinalMessage_OtherId(text, id) == [type |-> "final", text |-> text, id |-> id + 1]

FinalMessage(text, id) == [type |-> "final", text |-> text, id |-> id]

ErrorMessage ==
    [type |-> "error", message |-> "Failed to process audio chunk",
     code |-> "PROCESSING_ERROR"]

\* socket.send: a message goes out only while the connection is open (the
\* WebSocket drops what is sent once it is closing or closed, without throwing)
SocketSend(out, msg) == IF sock = "open" THEN Append(out, msg) ELSE out

\* faulty variant: close() leaves the connection open
SocketClose_Noop(s) == s

\* socket.close(): an open connection starts closing
SocketClose(s) == IF s = "open" THEN "closing" ELSE s

\* faulty variant: the loop does not look at the completion flag
LoopCondition_IgnoresFlag(complete, chunks) == Len(chunks) > 0

\* line 138: the emission loop's test
LoopCondition(complete, chunks) == ~complete /\ Len(chunks) > 0

\* faulty variant: every chunk starts an emission loop
StartsLoop_EveryChunk(count) == count >= 1

\* faulty variant: the emission loop starts with the second chunk
StartsLoop_AfterFirst(count) == count = 2

\* line 183: the chunk that starts processChunks
StartsLoop(count) == count = 1

\* line 191: the chunk that enters the last-chunk branch
EntersFinalization(m) == m.isLast

\* lines 201-210: the document of the session
SessionDoc(chunks, count) ==
    Doc("ws://streaming-session/" \o SessionId, generateFinalTranscription(chunks),
        "mock", "none", [sessionId |-> SessionId, chunkCount |-> count])

IsInteriorPartial(msg) == msg.type = "partial" /\ msg # WelcomeMessage
NumPartials(out) == Cardinality({i \in 1..Len(out) : out[i].type = "partial"})
NumFinals(out) == Cardinality({i \in 1..Len(out) : out[i].type = "final"})
NumErrors(out) == Cardinality({i \in 1..Len(out) : out[i].type = "error"})

\* faulty variant: the new chunk is put in front of the others
Push_Front(chunks, x) == <<x>> \o chunks

\* line 174: audioChunks.push
Push(chunks, x) == Append(chunks, x)

\* socket.on('message'): the handler up to its first suspension
OnMessage(m) ==
    /\ sock # "closed" /\ ~closeFrameReceived
    /\ inCount' = inCount + 1
    /\ ev' = m
    /\ LET branch == HandlerBranch(m)
           count == chunkCount + 1
           chunks == Push(audioChunks, inCount + 1)
           starts == branch = "chunk" /\ StartsLoop(count)
           emits == starts /\ LoopCondition(isComplete, chunks)
           last == branch = "chunk" /\ EntersFinalization(m)
       IN /\ chunkCount' = IF branch = "chunk" THEN count ELSE chunkCount
          /\ audioChunks' = IF branch = "chunk" THEN chunks ELSE audioChunks
          /\ loopsStarted' = IF starts THEN loopsStarted + 1 ELSE loopsStarted
          /\ loop' = IF starts THEN (IF emits THEN "sleeping" ELSE "done") ELSE loop
          /\ sent' = IF branch = "catch" THEN SocketSend(sent, ErrorMessage)
                     ELSE IF emits THEN SocketSend(sent, PartialMessage(chunks))
                     ELSE sent
          /\ isComplete' = IF last THEN TRUE ELSE isComplete
          /\ lastSeen' = IF last THEN lastSeen + 1 ELSE lastSeen
          /\ fin' = IF last
                    THEN fin \cup {[id |-> inCount + 1, pc |-> "delay", doc |-> None]}
                    ELSE fin
    /\ UNCHANGED <<sock, store, closeFrameReceived, retryVars, pipeVars, cfg, queryVars, recogVars>>

\* a session takes in at most MaxMsgs messages
Receive(m) == inCount < MaxMsgs /\ OnMessage(m)

\* processChunks resumes from sleep(500): test the loop condition again
LoopWake ==
    /\ loop = "sleeping"
    /\ IF LoopCondition(isComplete, audioChunks)
       THEN /\ Len(sent) < MaxSent
            /\ sent' = SocketSend(sent, PartialMessage(audioChunks))
            /\ loop' = "sleeping"
       ELSE /\ sent' = sent
            /\ loop' = "done"
    /\ UNCHANGED <<sock, isComplete, chunkCount, audioChunks, loopsStarted, fin,
                   inCount, lastSeen, ev, store, closeFrameReceived, retryVars, pipeVars, cfg, queryVars, recogVars>>

\* a last-chunk handler resumes from sleep(1000) and calls TranscriptionModel.create
FinDelayDone(h) ==
    /\ h \in fin /\ h.pc = "delay"
    /\ fin' = (fin \ {h}) \cup
              {[h EXCEPT !.pc = "creating", !.doc = SessionDoc(audioChunks, chunkCount)]}
    /\ UNCHANGED <<sock, isComplete, chunkCount, audioChunks, loop, loopsStarted,
                   sent, inCount, lastSeen, ev, store, closeFrameReceived, retryVars, pipeVars, cfg, queryVars, recogVars>>

\* create resolved: send the final message and close the connection
FinCreateOk(h) ==
    /\ h \in fin /\ h.pc = "creating"
    /\ SchemaAccepts(h.doc)
    /\ LET rec == NewRecord(h.doc, store)
       IN /\ store' = Append(store, rec)
          /\ sent' = SocketSend(sent, FinalMessage(rec.transcription, rec.id))
    /\ sock' = SocketClose(sock)
    /\ fin' = fin \ {h}
    /\ UNCHANGED <<isComplete, chunkCount, audioChunks, loop, loopsStarted,
                   inCount, lastSeen, ev, closeFrameReceived, retryVars, pipeVars, cfg, queryVars, recogVars>>

\* create rejected: the catch block sends an error message
FinCreateFail(h) ==
    /\ h \in fin /\ h.pc = "creating"
    /\ sent' = SocketSend(sent, ErrorMessage)
    /\ fin' = fin \ {h}
    /\ UNCHANGED <<sock, isComplete, chunkCount, audioChunks, loop, loopsStarted,
                   inCount, lastSeen, ev, store, closeFrameReceived, retryVars, pipeVars, cfg, queryVars, recogVars>>

\* faulty variant: the close handler saves what the session has accumulated
OnClose_PersistsSession ==
    /\ sock = "closing" /\ closeFrameReceived
    /\ sock' = "closed"
    /\ isComplete' = TRUE
    /\ store' = Append(store, NewRecord(SessionDoc(audioChunks, chunkCount), store))
    /\ UNCHANGED <<chunkCount, audioChunks, loop, loopsStarted, fin, sent,
                   inCount, lastSeen, ev, closeFrameReceived, retryVars, pipeVars, cfg, queryVars, recogVars>>

\* the peer's close frame comes in (or the peer ends the transport): the
\* WebSocket stops reading, answers with close() and is CLOSING from then on;
\* no handler of the session runs, the 'close' event comes later
OnCloseFrame ==
    /\ sock # "closed" /\ ~closeFrameReceived
    /\ closeFrameReceived' = TRUE
    /\ sock' = SocketClose(sock)
    /\ UNCHANGED <<isComplete, chunkCount, audioChunks, loop, loopsStarted, fin, sent,
                   inCount, lastSeen, ev, store, retryVars, pipeVars, cfg, queryVars, recogVars>>

\* socket.on('close'): the closing handshake is over, the connection is gone
OnClose ==
    /\ sock = "closing" /\ closeFrameReceived
    /\ sock' = "closed"
    /\ isComplete' = TRUE
    /\ UNCHANGED <<chunkCount, audioChunks, loop, loopsStarted, fin, sent,
                   inCount, lastSeen, ev, store, closeFrameReceived, retryVars, pipeVars, cfg, queryVars, recogVars>>

\* socket.on('error'): a transport error; the connection may already be closing
OnError ==
    /\ sock # "closed"
    /\ sock' \in {sock, SocketClose(sock)}
    /\ isComplete' = TRUE
    /\ UNCHANGED <<chunkCount, audioChunks, loop, loopsStarted, fin, sent,
                   inCount, lastSeen, ev, store, closeFrameReceived, retryVars, pipeVars, cfg, queryVars, recogVars>>

----------------------------------------------------------------------------
(* The list query: TranscriptionModel.findRecentTranscriptions and
   TranscriptionService.getRecentTranscriptions *)

\* the `source` argument; "none" stands for an absent (or empty) one
SourceFilters == {"none", "mock", "azure"}

\* the clock runs from instant 0 into the second day
MaxNow == DayLength + 1

\* the `limit` arguments: one record a page, or all records on one page
Limits == {1, MaxRecords}

\* The `days` argument is any number: `whole` is the whole number it is or the
\* whole number next below it, `half` says that it is not whole.
WholeDays == {[whole |-> w, half |-> FALSE] : w \in 0..(MaxNow \div DayLength)}
AllDays == [whole : (-1)..(MaxNow \div DayLength), half : BOOLEAN]

\* What the process knows of the local calendar (its time zone and the date):
\* at instant dstAt the local clocks move by `jump` instants (forward when
\* positive, not at all when 0), and local day 0 is day dayOfMonth0 of a month
\* of MonthLength days.
MonthLength == 31
PlainCalendar == [dstAt |-> 1, jump |-> 0, dayOfMonth0 |-> 15]
Calendars ==
    {[dstAt |-> k, jump |-> j, dayOfMonth0 |-> d] :
        k \in 1..MaxNow, j \in {-1, 1}, d \in {1, 15, MonthLength}}
        \cup {[PlainCalendar EXCEPT !.dayOfMonth0 = d] : d \in {1, 15, MonthLength}}

\* LocalTime(t): the reading of the local clock at instant t
LocalTime(cal, t) == t + (IF t >= cal.dstAt THEN cal.jump ELSE 0)

\* UTC(tlocal): the instant at which the local clock reads l; a reading that
\* the clocks skip or show twice is taken with the offset before the change
UTC(cal, l) ==
    IF l < cal.dstAt THEN l
    ELSE IF l - cal.jump >= cal.dstAt THEN l - cal.jump
    ELSE l

\* getDate() at the local clock reading l
GetDate(cal, l) == ((cal.dayOfMonth0 - 1 + (l \div DayLength)) % MonthLength) + 1

\* getDate() - ToIntegerOrInfinity(getDate() - days): the number of calendar
\* days setDate goes back; the difference is truncated towards zero, so a
\* `days` that is not whole counts as the next whole number, or as the one
\* below when the difference is negative
DaysBack(days, date) ==
    IF days.half /\ date >= days.whole + 1 THEN days.whole + 1 ELSE days.whole

\* threshold = new Date(); threshold.setDate(threshold.getDate() - days): the
\* same reading of the local clock DaysBack calendar days earlier
Threshold(cal, t, days) ==
    LET l == LocalTime(cal, t)
    IN UTC(cal, l - DaysBack(days, GetDate(cal, l)) * DayLength)

\* faulty variant: the query forgets the source filter
Matches_IgnoresSource(rec, threshold, source) == rec.createdAt >= threshold

\* the filter { createdAt: { $gte: threshold } } with query.source when given
Matches(rec, threshold, source) ==
    /\ rec.createdAt >= threshold
    /\ source # "none" => rec.source = source

Matching(st, threshold, source) ==
    {i \in 1..Len(st) : Matches(st[i], threshold, source)}

\* sort({ createdAt: -1 }): every order of the matching records in which
\* createdAt never increases (records of equal createdAt come in any order)
DescendingOrders(st, ids) ==
    {o \in [1..Cardinality(ids) -> ids] :
        /\ \A i, j \in DOMAIN o : i # j => o[i] # o[j]
        /\ \A i, j \in DOMAIN o : i < j => st[o[i]].createdAt >= st[o[j]].createdAt}

\* skip(skip).limit(limit) for limit >= 1
SkipLimit(seq, skip, limit) ==
    IF skip >= Len(seq) THEN <<>>
    ELSE SubSeq(seq, skip + 1, Min(skip + limit, Len(seq)))

\* faulty variant: the number of pages is rounded down
CeilDiv_RoundsDown(a, b) == a \div b

\* Math.ceil(a / b) for a >= 0, b >= 1
CeilDiv(a, b) == (a + b - 1) \div b

\* find(query).sort({ createdAt: -1 }).skip(skip).limit(limit): the pages the
\* read can return on store st
FindPage(st, threshold, page, limit, source) ==
    LET skip == (page - 1) * limit
    IN {SkipLimit([i \in DOMAIN o |-> st[o[i]]], skip, limit) :
            o \in DescendingOrders(st, Matching(st, threshold, source))}

\* countDocuments(query) on store st
CountDocuments(st, threshold, source) == Cardinality(Matching(st, threshold, source))

\* the object findRecentTranscriptions returns from what its two reads gave
ListResult(transcriptions, total, page, limit) ==
    [transcriptions |-> transcriptions, total |-> total, page |-> page,
     limit |-> limit, totalPages |-> CeilDiv(total, limit)]

\* the results findRecentTranscriptions can return when called at instant t
\* under calendar cal and both reads see the same store st
findRecentTranscriptions(st, cal, t, days, page, limit, source) ==
    LET threshold == Threshold(cal, t, days)
    IN {ListResult(items, CountDocuments(st, threshold, source), page, limit) :
           items \in FindPage(st, threshold, page, limit, source)}

\* the shape getRecentTranscriptions gives an item
ResponseItem(rec) ==
    [id |-> rec.id, audioUrl |-> rec.audioUrl, transcription |-> rec.transcription,
     source |-> rec.source, language |-> rec.language, createdAt |-> rec.createdAt]

\* the response getRecentTranscriptions builds from the model's result
Response(r) ==
    [count |-> r.total, page |-> r.page, limit |-> r.limit,
     totalPages |-> r.totalPages,
     transcriptions |-> [i \in DOMAIN r.transcriptions |->
                            ResponseItem(r.transcriptions[i])]]

getRecentTranscriptions(st, cal, t, days, page, limit, source) ==
    {Response(r) :
        r \in findRecentTranscriptions(st, cal, t, days, page, limit, source)}

\* the documents the services hand to TranscriptionModel.create
BatchRequests ==
    [service : {"TranscriptionService", "AzureSpeechService"},
     audioUrl : {u \in Urls : u.file = "a.mp3"}, language : {"en-US"}]

BatchText(req) ==
    IF req.service = "TranscriptionService"
    THEN generateMockTranscription(req.audioUrl)
    ELSE Text(speechClient, req.language)

CreatedDocs ==
    {ServiceDoc(req, BatchText(req)) : req \in BatchRequests}
        \cup {SessionDoc(<<1>>, 1)}

\* faulty variant: a create replaces the newest record instead of adding one
StoreCreate_ReplacesNewest(doc) ==
    /\ Len(store) < MaxRecords
    /\ store' = IF store = <<>> THEN <<NewRecord(doc, store)>>
                ELSE [store EXCEPT ![Len(store)] = NewRecord(doc, <<>>)]
    /\ UNCHANGED <<qOut, now, retryVars, pipeVars, cfg, streamVars, recogVars>>

\* a batch request or a streaming session reaches TranscriptionModel.create,
\* whether or not a list query is under way
StoreCreate(doc) ==
    /\ Len(store) < MaxRecords
    /\ store' = Append(store, NewRecord(doc, store))
    /\ UNCHANGED <<qOut, now, retryVars, pipeVars, cfg, streamVars, recogVars>>

\* the clock advances by one instant; DayLength instants make a day. A list
\* query under way spans at most two instants
Tick ==
    /\ qOut # None => now = qOut.at
    /\ now < MaxNow
    /\ now' = now + 1
    /\ UNCHANGED <<qOut, store, retryVars, pipeVars, cfg, streamVars, recogVars>>

\* GET /transcriptions: getRecentTranscriptions(days, page, limit, source) is
\* called; `new Date()` fixes the instant the threshold is taken from, and the
\* two reads of Promise.all are issued
ListQuery(days, page, limit, source) ==
    /\ qOut = None
    /\ qOut' = [days |-> days, page |-> page, limit |-> limit, source |-> source,
                at |-> now, threshold |-> Threshold(cfg.calendar, now, days),
                found |-> FALSE, transcriptions |-> <<>>,
                counted |-> FALSE, total |-> 0]
    /\ UNCHANGED <<now, store, retryVars, pipeVars, cfg, streamVars, recogVars>>

\* the find of the query reads the store as it is now
QueryFind ==
    /\ qOut # None /\ ~qOut.found
    /\ \E items \in FindPage(store, qOut.threshold, qOut.page, qOut.limit,
                             qOut.source) :
          qOut' = [qOut EXCEPT !.found = TRUE, !.transcriptions = items]
    /\ UNCHANGED <<now, store, retryVars, pipeVars, cfg, streamVars, recogVars>>

\* the countDocuments of the query reads the store as it is now
QueryCount ==
    /\ qOut # None /\ ~qOut.counted
    /\ qOut' = [qOut EXCEPT !.counted = TRUE,
                            !.total = CountDocuments(store, qOut.threshold,
                                                     qOut.source)]
    /\ UNCHANGED <<now, store, retryVars, pipeVars, cfg, streamVars, recogVars>>

\* both reads have answered
QueryDone == qOut # None /\ qOut.found /\ qOut.counted

\* the response the query is about to send
QueryResponse ==
    Response(ListResult(qOut.transcriptions, qOut.total, qOut.page, qOut.limit))

\* the response has been sent
ListReturned ==
    /\ QueryDone
    /\ qOut' = None
    /\ UNCHANGED <<now, store, retryVars, pipeVars, cfg, streamVars, recogVars>>

\* config/database: clearDatabase() deletes every document of every
\* collection when the configuration is the test one, and does nothing
\* otherwise
clearDatabase ==
    /\ store' = IF cfg.isTest THEN <<>> ELSE store
    /\ UNCHANGED <<qOut, now, retryVars, pipeVars, cfg, streamVars, recogVars>>

----------------------------------------------------------------------------
(* adapters/speech-client.real: RealSpeechClient.transcribe *)

\* what `recognized` can deliver: e.result.reason and e.result.text
Fragments ==
    {[reason |-> "RecognizedSpeech", text |-> "a"],
     [reason |-> "RecognizedSpeech", text |-> "b"],
     [reason |-> "RecognizedSpeech", text |-> ""],
     [reason |-> "NoMatch", text |-> ""]}

\* e.reason of `canceled`
CancellationReasons == {"Error", "EndOfStream"}

\* `transcription += e.result.text + ' '`: tText holds the texts, each followed
\* by a blank; String.trim() removes the blanks at both ends, and with them
\* the empty texts at both ends
RECURSIVE TrimStart(_)
TrimStart(texts) ==
    IF texts # <<>> /\ Head(texts) = "" THEN TrimStart(Tail(texts)) ELSE texts

RECURSIVE TrimEnd(_)
TrimEnd(texts) ==
    IF texts # <<>> /\ texts[Len(texts)] = ""
    THEN TrimEnd(SubSeq(texts, 1, Len(texts) - 1)) ELSE texts

Trim(texts) == TrimEnd(TrimStart(texts))

\* `if (transcription)`: the accumulated string is not ''
HasTranscription(texts) == Len(texts) > 0

Resolved(texts) == [kind |-> "resolve", text |-> Trim(texts)]
Rejected(err) == [kind |-> "reject", err |-> err]

\* faulty variant: a later resolve or reject replaces the outcome
Settle_LastWins(current, outcome) == outcome

\* resolve / reject of a promise: only the first call settles it
Settle(current, outcome) == IF current = None THEN outcome ELSE current

\* transcribe is called: without credentials it throws at once; otherwise the
\* recognizer is set up and the timer started, unless the SDK throws on the way
TranscribeCall ==
    /\ tPc = "idle"
    /\ IF ~isConfigured("RealSpeechClient", cfg)
       THEN /\ tPc' = "failed" /\ tTimer' = tTimer
            /\ tOutcome' = Rejected(ExternalServiceError("Azure Speech credentials not configured", "Azure"))
       ELSE \/ /\ tPc' = "listening" /\ tTimer' = "pending" /\ tOutcome' = tOutcome
            \/ /\ tPc' = "failed" /\ tTimer' = tTimer
               /\ tOutcome' = Settle(tOutcome, Rejected(ErrorObj("Error", "sdk threw")))
    /\ UNCHANGED <<tText, tLog, now, qOut, store, retryVars, pipeVars, cfg, streamVars>>

\* recognizer.recognized
OnRecognized(f) ==
    /\ tPc = "listening" /\ Len(tLog) < MaxEvents
    /\ tText' = IF f.reason = "RecognizedSpeech" THEN Append(tText, f.text) ELSE tText
    /\ tLog' = Append(tLog, [e |-> "recognized", fragment |-> f])
    /\ UNCHANGED <<tPc, tOutcome, tTimer, now, qOut, store, retryVars, pipeVars, cfg,
                   streamVars>>

\* recognizer.sessionStopped
OnSessionStopped ==
    /\ tPc = "listening" /\ Len(tLog) < MaxEvents
    /\ tOutcome' = Settle(tOutcome, Resolved(tText))
    /\ tLog' = Append(tLog, [e |-> "sessionStopped"])
    /\ UNCHANGED <<tPc, tText, tTimer, now, qOut, store, retryVars, pipeVars, cfg,
                   streamVars>>

\* recognizer.canceled
OnCanceled(reason) ==
    /\ tPc = "listening" /\ Len(tLog) < MaxEvents
    /\ tOutcome' = Settle(tOutcome,
                          IF reason = "Error"
                          THEN Rejected(ExternalServiceError("canceled", "Azure Speech"))
                          ELSE Resolved(tText))
    /\ tLog' = Append(tLog, [e |-> "canceled", reason |-> reason])
    /\ UNCHANGED <<tPc, tText, tTimer, now, qOut, store, retryVars, pipeVars, cfg,
                   streamVars>>

\* the error callback of startContinuousRecognitionAsync
OnStartFailed ==
    /\ tPc = "listening" /\ Len(tLog) < MaxEvents
    /\ tOutcome' = Settle(tOutcome, Rejected(ExternalServiceError("start failed", "Azure Speech")))
    /\ tLog' = Append(tLog, [e |-> "startFailed"])
    /\ UNCHANGED <<tPc, tText, tTimer, now, qOut, store, retryVars, pipeVars, cfg,
                   streamVars>>

\* the 60 s timer fires; it is never cleared, so it fires after a settlement too
OnTimeout ==
    /\ tPc = "listening" /\ tTimer = "pending"
    /\ tTimer' = "fired"
    /\ tOutcome' = Settle(tOutcome,
                          IF HasTranscription(tText)
                          THEN Resolved(tText)
                          ELSE Rejected(ExternalServiceError("Transcription timeout", "Azure Speech")))
    /\ tLog' = Append(tLog, [e |-> "timeout"])
    /\ UNCHANGED <<tPc, tText, now, qOut, store, retryVars, pipeVars, cfg, streamVars>>

----------------------------------------------------------------------------
(* Specifications *)

IdlePolicy ==
    [maxAttempts |-> 1, fractional |-> FALSE, initialDelay |-> 0, maxDelay |-> 0,
     hasOnRetry |-> FALSE]
DefaultConfig ==
    [isTest |-> TRUE, speechKey |-> "unset", speechRegion |-> "unset",
     maxAttempts |-> 3, fractional |-> FALSE,
     initialDelay |-> DefaultInitialDelay, maxDelay |-> DefaultMaxDelay,
     calendar |-> PlainCalendar]

RetryIdle ==
    /\ rPc = "idle" /\ rCtx = "standalone" /\ rPolicy = IdlePolicy
    /\ rAttempt = 0 /\ rLog = <<>> /\ rResult = None

PipeIdle ==
    /\ pPc = "idle" /\ pReq = None /\ pText = None /\ pOut = None
    /\ pCalls = [c \in {"MockHttpClient", "RealHttpClient",
                        "MockSpeechClient", "RealSpeechClient"} |-> 0]

\* the session right after transcriptionWebSocket has run (lines 71-89)
StreamOpen ==
    /\ sock = "open" /\ closeFrameReceived = FALSE
    /\ isComplete = FALSE /\ chunkCount = 0 /\ audioChunks = <<>>
    /\ loop = "none" /\ loopsStarted = 0 /\ fin = {} /\ sent = <<WelcomeMessage>>
    /\ inCount = 0 /\ lastSeen = 0 /\ ev = None

\* ---- one streaming session ----
QueryIdle == now = 0 /\ qOut = None

RecogIdle ==
    /\ tPc = "idle" /\ tText = <<>> /\ tOutcome = None
    /\ tTimer = "none" /\ tLog = <<>>

Init ==
    /\ RetryIdle /\ PipeIdle /\ StreamOpen /\ QueryIdle /\ RecogIdle
    /\ cfg = DefaultConfig /\ store = <<>>

Next ==
    \/ \E m \in Inbound : Receive(m)
    \/ LoopWake
    \/ \E h \in fin : FinDelayDone(h)
    \/ \E h \in fin : FinCreateOk(h)
    \/ \E h \in fin : FinCreateFail(h)
    \/ OnCloseFrame
    \/ OnClose
    \/ OnError

Spec == Init /\ [][Next]_vars

\* ---- a streaming session whose timers fire and whose writes settle ----
\* sleep(500) and sleep(1000) resolve, and TranscriptionModel.create settles
FinDelayElapses == \E h \in fin : FinDelayDone(h)
FinCreateSettles == \E h \in fin : FinCreateOk(h) \/ FinCreateFail(h)

SpecLive ==
    /\ Spec
    /\ WF_vars(LoopWake)
    /\ WF_vars(FinDelayElapses)
    /\ WF_vars(FinCreateSettles)

\* ---- one call of retryWithBackoff on an arbitrary policy and operation ----
\* the policies a caller passes as RetryOptions: its three numbers are any
\* numbers, below 1 or not whole for maxAttempts and negative for the delays
\* included (NaN as maxAttempts makes both tests of the loop false, as a
\* number below 1 that is not whole does)
Policies ==
    [maxAttempts : (-1)..MaxAttemptsBound, fractional : BOOLEAN,
     initialDelay : (-1)..MaxInitialDelay, maxDelay : (-1)..MaxDelayBound,
     hasOnRetry : BOOLEAN]

RetryCall(policy) ==
    /\ rPc = "idle"
    /\ RetryBegin("standalone", policy)
    /\ UNCHANGED <<pipeVars, cfg, queryVars, recogVars, store, streamVars>>

RetryStepInvoke == RetryInvoke /\ UNCHANGED <<pipeVars, cfg, queryVars, recogVars, store, streamVars>>
RetryStepSucceed ==
    /\ \E v \in StandaloneOk : RetrySucceed(v)
    /\ UNCHANGED <<pipeVars, cfg, queryVars, recogVars, store, streamVars>>
RetryStepFail ==
    /\ \E x \in StandaloneFail : RetryFail(x)
    /\ UNCHANGED <<pipeVars, cfg, queryVars, recogVars, store, streamVars>>
RetryStepWake == RetryWake /\ UNCHANGED <<pipeVars, cfg, queryVars, recogVars, store, streamVars>>

NextRetry ==
    \/ \E policy \in Policies : RetryCall(policy)
    \/ RetryStepInvoke
    \/ RetryStepSucceed
    \/ RetryStepFail
    \/ RetryStepWake

SpecRetry == Init /\ [][NextRetry]_vars

\* ---- one request of a batch pipeline, under any configuration ----
InitPipeline ==
    /\ RetryIdle /\ PipeIdle /\ StreamOpen /\ QueryIdle /\ RecogIdle
    /\ store = <<>>
    /\ cfg \in Configs

NextPipeline ==
    \/ \E svc \in {"TranscriptionService", "AzureSpeechService"}, url \in Urls,
          lang \in Languages : PipeRequest(svc, url, lang)
    \/ PipeInvoke
    \/ PipeResolve
    \/ PipeReject
    \/ PipeWake
    \/ PipeDownloadReturned
    \/ PipeDownloadRaised
    \/ PipeRecognizeReturned
    \/ PipeRecognizeRaised
    \/ PipeCreateOk
    \/ PipeCreateFail

SpecPipeline == InitPipeline /\ [][NextPipeline]_vars

\* ---- a session that keeps receiving chunks while its loop emits ----
ChunkArrives ==
    /\ chunkCount < MaxChunks
    /\ OnMessage(ChunkMsg(FALSE))

NextEmission ==
    \/ ChunkArrives
    \/ LoopWake

SpecEmission == Init /\ [][NextEmission]_vars

\* ---- the store under creations, the passing of time and list queries ----
NextQuery ==
    \/ \E doc \in CreatedDocs : StoreCreate(doc)
    \/ Tick
    \/ \E days \in WholeDays, page \in 1..(MaxRecords + 1), limit \in Limits,
          source \in SourceFilters : ListQuery(days, page, limit, source)
    \/ QueryFind
    \/ QueryCount
    \/ ListReturned

SpecQuery == Init /\ [][NextQuery]_vars

\* ---- the same, in a test run that also empties the database ----
NextTestRun ==
    \/ NextQuery
    \/ clearDatabase

SpecTestRun == Init /\ [][NextTestRun]_vars

\* ---- list queries on a store that is quiet meanwhile, on any calendar ----
InitCalendar ==
    /\ RetryIdle /\ PipeIdle /\ StreamOpen /\ QueryIdle /\ RecogIdle
    /\ store = <<>>
    /\ cfg \in {[DefaultConfig EXCEPT !.calendar = c] : c \in Calendars}

NextCalendar ==
    \/ qOut = None /\ StoreCreate(SessionDoc(<<1>>, 1))
    \/ qOut = None /\ Tick
    \/ \E days \in AllDays : ListQuery(days, 1, MaxRecords, "none")
    \/ QueryFind
    \/ QueryCount
    \/ ListReturned

SpecCalendar == InitCalendar /\ [][NextCalendar]_vars

\* ---- one call of RealSpeechClient.transcribe, under any credentials ----
InitRecognizer ==
    /\ RetryIdle /\ PipeIdle /\ StreamOpen /\ QueryIdle /\ RecogIdle
    /\ store = <<>>
    /\ cfg \in {[DefaultConfig EXCEPT !.isTest = FALSE, !.speechKey = k,
                                    !.speechRegion = r] :
                  k \in CredentialValues, r \in CredentialValues}

NextRecognizer ==
    \/ TranscribeCall
    \/ \E f \in Fragments : OnRecognized(f)
    \/ OnSessionStopped
    \/ \E reason \in CancellationReasons : OnCanceled(reason)
    \/ OnStartFailed
    \/ OnTimeout

SpecRecognizer == InitRecognizer /\ [][NextRecognizer]_vars

----------------------------------------------------------------------------
(* Properties of the streaming session (checked under Spec) *)

WelcomeFirst == Len(sent) >= 1 /\ sent[1] = WelcomeMessage
FinalLast == \A i \in 1..Len(sent) : sent[i].type = "final" => i = Len(sent)

\* C1 as stated: the welcome partial is the first outbound message, a final
\* message is the last outbound message, and no partial goes out in or after
\* the step that receives the first chunk with isLast = true.
C1_NoPartialOnceLastReceived ==
    /\ [](WelcomeFirst /\ FinalLast)
    /\ [][lastSeen' > 0 => NumPartials(sent') = NumPartials(sent)]_vars

\* C1 amended: the welcome partial is first, a final message is last, and once
\* a chunk with isLast = true has been received no partial goes out, except the
\* single interior partial that the handler of that chunk itself sends when the
\* chunk is also the first chunk of the session (it starts the emission loop
\* before it sets the completion flag).
C1_Ordering ==
    /\ [](WelcomeFirst /\ FinalLast)
    /\ [][lastSeen' > 0 =>
            \/ NumPartials(sent') = NumPartials(sent)
            \/ /\ lastSeen = 0 /\ chunkCount = 0 /\ chunkCount' = 1
               /\ sent' = Append(sent, sent'[Len(sent')])
               /\ IsInteriorPartial(sent'[Len(sent')])]_vars

\* a session whose first chunk was its last: welcome, one interior partial, final
C1_Witness ==
    /\ chunkCount = 1 /\ lastSeen = 1 /\ Len(sent) = 3
    /\ IsInteriorPartial(sent[2]) /\ sent[3].type = "final"

\* C2: a session persists at most one record and sends at most one final
\* message, whatever arrives while an earlier last chunk is being finalized.
C2_AtMostOneRecordAndFinal == Len(store) <= 1 /\ NumFinals(sent) <= 1

\* the claim's notion of a message that is not a well-formed chunk message
NotChunkMessage(m) == m.kind # "chunk"

\* C10: every inbound message that is not a well-formed chunk message (not
\* JSON, or JSON that is not an object with type 'chunk') makes exactly one
\* error notification go out on the open connection.
C10_OneErrorPerMalformedMessage ==
    [][(inCount' = inCount + 1 /\ NotChunkMessage(ev') /\ sock = "open")
          => sent' = Append(sent, ErrorMessage)]_vars

----------------------------------------------------------------------------
(* Properties of retryWithBackoff (checked under SpecRetry) *)

EventsOf(log, kind) == {i \in 1..Len(log) : log[i].e = kind}
NumEvents(log, kind) == Cardinality(EventsOf(log, kind))
LastFailure(log) == log[CHOOSE i \in EventsOf(log, "fail") :
                            \A j \in EventsOf(log, "fail") : j <= i]

\* C4: when the operation first succeeds on attempt k it has been invoked
\* exactly k times (attempts 1..k), exactly k-1 delays were slept, each between
\* a failed attempt and the next invocation, the value of attempt k is
\* returned, and nothing follows the successful attempt.
C4_SuccessOnAttemptK ==
    rPc = "returned" =>
        LET k == NumEvents(rLog, "fail") + 1
        IN /\ k <= rPolicy.maxAttempts
           /\ NumEvents(rLog, "call") = k
           /\ {rLog[i].attempt : i \in EventsOf(rLog, "call")} = 1..k
           /\ NumEvents(rLog, "sleep") = k - 1
           /\ \A i \in EventsOf(rLog, "sleep") :
                 /\ \E j \in 1..(i - 1) :
                       rLog[j].e = "fail" /\ rLog[j].attempt = rLog[i].attempt
                 /\ i < Len(rLog)
                 /\ rLog[i + 1] = [e |-> "call", attempt |-> rLog[i].attempt + 1]
           /\ NumEvents(rLog, "ok") = 1
           /\ rLog[Len(rLog)] = [e |-> "ok", attempt |-> k, value |-> rResult]

\* success on the third attempt of three
C4_Witness ==
    rPc = "returned" /\ NumEvents(rLog, "fail") = 2 /\ rPolicy.maxAttempts = 3

\* C5: when every attempt fails the operation has been invoked exactly
\* maxAttempts times, exactly maxAttempts-1 delays were slept, none after the
\* last failure, and the error raised is that of the last attempt.
C5_AllAttemptsFail ==
    rPc = "raised" =>
        /\ NumEvents(rLog, "call") = rPolicy.maxAttempts
        /\ NumEvents(rLog, "fail") = rPolicy.maxAttempts
        /\ NumEvents(rLog, "sleep") = rPolicy.maxAttempts - 1
        /\ rLog[Len(rLog)].e = "fail"
        /\ rLog[Len(rLog)].attempt = rPolicy.maxAttempts
        /\ rResult.isError
        /\ rResult.msg = rLog[Len(rLog)].err.msg

\* C6: the delay slept after failed attempt n is min(initialDelay * 2^(n-1),
\* maxDelay): min(d, M) after the first and min(2d, M) after the second; the
\* delays never decrease and never exceed maxDelay.
C6_BackoffDelays ==
    \A i \in EventsOf(rLog, "sleep") :
        LET n == rLog[i].attempt
            d == rPolicy.initialDelay
            M == rPolicy.maxDelay
        IN /\ rLog[i].delay = (IF d * (2 ^ (n - 1)) <= M THEN d * (2 ^ (n - 1)) ELSE M)
           /\ n = 1 => rLog[i].delay = (IF d <= M THEN d ELSE M)
           /\ n = 2 => rLog[i].delay = (IF 2 * d <= M THEN 2 * d ELSE M)
           /\ rLog[i].delay <= M
           /\ \A j \in EventsOf(rLog, "sleep") : j < i => rLog[j].delay <= rLog[i].delay

\* the attempt count has reached maxAttempts: the attempt numbered maxAttempts
\* has failed and the executor has raised
ReachedMaxAttempts ==
    /\ rPc = "raised" /\ ~rPolicy.fractional /\ rLog # <<>>
    /\ rLog[Len(rLog)].e = "fail"
    /\ rLog[Len(rLog)].attempt = rPolicy.maxAttempts

\* C7 as stated: the failure raised when the attempt count reaches maxAttempts
\* is the very value the operation failed with, whatever kind of value it is.
C7_RaisedUnchanged ==
    ReachedMaxAttempts => rResult = LastFailure(rLog).err

\* C7 amended: the failure raised when the attempt count reaches maxAttempts
\* is the very value the operation failed with when that value is an Error
\* object; a value that is not an Error object is raised as a new Error whose
\* message is String(value).
C7_RaisedErrorOrWrapped ==
    ReachedMaxAttempts =>
        LET x == LastFailure(rLog).err
        IN IF x.isError THEN rResult = x
           ELSE rResult = [isError |-> TRUE, cls |-> "Error", msg |-> x.msg]

\* the last attempt failed with a value that is not an Error object
C7_Witness ==
    ReachedMaxAttempts /\ ~LastFailure(rLog).err.isError /\ rPolicy.maxAttempts >= 2

\* C8: the observer is called exactly once for each failed attempt that is
\* followed by a retry, with that attempt's number and its error (as an Error
\* object), before the delay is slept; never for the final failed attempt nor
\* after a success: min(failures, maxAttempts-1) calls in total.  Checked
\* under SpecPipeline, on every call of the executor the services make: the
\* recognition step passes the observer, the download step passes none.
C8_ObserverCalls ==
    /\ \A i \in EventsOf(rLog, "fail") :
          (rPolicy.hasOnRetry /\ rLog[i].attempt < rPolicy.maxAttempts) =>
             /\ i + 2 <= Len(rLog)
             /\ rLog[i + 1].e = "onRetry"
             /\ rLog[i + 1].attempt = rLog[i].attempt
             /\ rLog[i + 1].err.isError
             /\ rLog[i + 1].err.msg = rLog[i].err.msg
             /\ rLog[i].err.isError => rLog[i + 1].err = rLog[i].err
             /\ rLog[i + 2].e = "sleep"
    /\ \A i \in EventsOf(rLog, "onRetry") :
          /\ i > 1 /\ rLog[i - 1].e = "fail"
          /\ rLog[i - 1].attempt = rLog[i].attempt
          /\ rLog[i].attempt < rPolicy.maxAttempts
    /\ NumEvents(rLog, "onRetry") =
          (IF rPolicy.hasOnRetry
           THEN Min(NumEvents(rLog, "fail"), rPolicy.maxAttempts - 1)
           ELSE 0)

\* the recognition step failed three times under its observer: two observer
\* calls, for attempts 1 and 2, none for the last failure
C8_Witness ==
    /\ rCtx = "recognize" /\ rPc = "raised" /\ rPolicy.hasOnRetry
    /\ NumEvents(rLog, "fail") = 3
    /\ NumEvents(rLog, "onRetry") = 2

----------------------------------------------------------------------------
(* Properties of the batch pipelines (checked under SpecPipeline) *)

PipeEnded == pPc \in {"done", "failed"}

\* C3: a call of a batch pipeline with a valid URL ends in exactly one of two
\* outcomes: one record persisted and returned, or one error propagated with
\* no record persisted; until it ends nothing is persisted, and it can always
\* go on to one of the two ends.
C3_RecordXorError ==
    (pReq # None /\ isValidUrl(pReq.audioUrl)) =>
        /\ pPc = "done" =>
              /\ pOut.tag = "response"
              /\ Len(store) = 1
              /\ store[1].id = pOut.id
              /\ store[1].audioUrl = pReq.audioUrl.name
        /\ pPc = "failed" => pOut.tag = "error" /\ Len(store) = 0
        /\ ~PipeEnded => pOut = None /\ Len(store) = 0 /\ ENABLED NextPipeline

\* the store write itself failed after a successful recognition
C3_Witness ==
    /\ pPc = "failed" /\ pReq.service = "AzureSpeechService"
    /\ pOut.err.cls = "MongoError" /\ Len(store) = 0

\* C9: a record persisted by AzureSpeechService has source 'azure' exactly when
\* its text came from the real provider adapter, and 'mock' when it came from
\* the simulated recognition adapter.
C9_SourceIsProducingPath ==
    \A i \in 1..Len(store) :
        pReq.service = "AzureSpeechService" =>
            /\ store[i].source = "azure" <=> store[i].transcription.origin = "RealSpeechClient"
            /\ store[i].transcription.origin = "MockSpeechClient" => store[i].source = "mock"

----------------------------------------------------------------------------
(* Further properties of the streaming session (checked under Spec) *)

\* the step receives the inbound message ev'
Received == inCount' = inCount + 1

\* C11: processing an inbound message that is not a well-formed chunk message
\* leaves chunkCount, the accumulated chunks and the completion flag unchanged,
\* starts no emission loop, starts no finalization, persists nothing and does
\* not close the connection; the only thing it may do is send one error
\* notification. A chunk received at any time on a connection that is not
\* closed is counted and accumulated, whatever was received before it.
C11_MalformedLeavesSession ==
    /\ [][(Received /\ NotChunkMessage(ev')) =>
            /\ UNCHANGED <<chunkCount, audioChunks, isComplete, loop,
                           loopsStarted, fin, lastSeen, store, sock>>
            /\ sent' \in {sent, Append(sent, ErrorMessage)}]_vars
    /\ [][(Received /\ ~NotChunkMessage(ev')) =>
            /\ chunkCount' = chunkCount + 1
            /\ Len(audioChunks') = Len(audioChunks) + 1
            /\ UNCHANGED <<store, sock>>]_vars

\* a message that is not JSON was answered with an error notification, and the
\* chunk received after it was counted as the first chunk and started the loop
C11_Witness ==
    /\ inCount = 2 /\ ev = ChunkMsg(FALSE)
    /\ NumErrors(sent) = 1 /\ sent[2] = ErrorMessage
    /\ chunkCount = 1 /\ loopsStarted = 1 /\ sock = "open" /\ ~isComplete

\* the session has received n >= 1 messages, all of them chunks, of which only
\* the most recent one has isLast = true
OnlyChunksLastIsLast ==
    /\ inCount >= 1 /\ chunkCount = inCount
    /\ lastSeen = 1 /\ ev = ChunkMsg(TRUE)

\* exactly the welcome partial, then interior partials, then one final message
WelcomePartialsFinal(out) ==
    /\ Len(out) >= 2 /\ out[1] = WelcomeMessage
    /\ out[Len(out)].type = "final"
    /\ \A i \in 2..(Len(out) - 1) : IsInteriorPartial(out[i])

\* C12: in a session that has received n >= 1 chunk messages of which only the
\* last has isLast = true, once the record of the session is persisted the
\* outbound trace is exactly the welcome partial, then interior partials, then
\* one final message, and the one persisted record has metadata.chunkCount n.
C12_TraceAndChunkCount ==
    (OnlyChunksLastIsLast /\ store # <<>>) =>
        /\ Len(store) = 1
        /\ store[1].metadata.chunkCount = inCount
        /\ WelcomePartialsFinal(sent)

\* C13: the store is written only by the handler of a chunk with isLast = true:
\* while no such chunk has been received the store is empty and no write is
\* pending, whatever chunks were received, whatever partials went out and
\* whether or not the connection has closed or failed; and every step that
\* writes to the store completes the handler of a last chunk.
C13_NothingPersistedBeforeLast ==
    /\ [](lastSeen = 0 => store = <<>> /\ fin = {})
    /\ [][store' # store =>
            /\ lastSeen >= 1
            /\ \E h \in fin : h.pc = "creating" /\ fin' = fin \ {h}
            /\ Len(store') = Len(store) + 1]_vars

\* a session that received two chunks, sent partials and was closed without a
\* last chunk: the store is empty
C13_Witness ==
    /\ sock = "closed" /\ lastSeen = 0 /\ chunkCount = 2
    /\ NumPartials(sent) >= 3 /\ loop = "done"
    /\ store = <<>>

\* the session has left Receiving: a chunk with isLast = true has been
\* received, the connection is closing or closed, or a connection error has
\* been reported (the only other thing that sets the completion flag)
LeftReceiving == lastSeen > 0 \/ sock # "open" \/ isComplete

\* C14: once the session has left Receiving it never returns, no step sends a
\* partial message, a sleeping emission loop can wake up and every wake-up
\* terminates it (none puts it back to sleep), and a terminated loop stays
\* terminated.
C14_LoopStopsOnceLeftReceiving ==
    /\ []((LeftReceiving /\ loop = "sleeping") =>
            /\ ENABLED LoopWake
            /\ ~ENABLED (LoopWake /\ loop' = "sleeping"))
    /\ [][LeftReceiving =>
            /\ LeftReceiving'
            /\ NumPartials(sent') = NumPartials(sent)
            /\ loop = "done" => loop' = "done"]_vars

\* C15 as stated: when the connection is closed and no final message has gone
\* out on it, the store holds no record of the session.
C15_NoRecordWhenClosedBeforeFinal ==
    (sock = "closed" /\ NumFinals(sent) = 0) => store = <<>>

----------------------------------------------------------------------------
(* Further properties of the batch pipeline (checked under SpecPipeline) *)

\* the specification's notion of a syntactically valid http/https URL
IsHttpUrl(url) == url.parses /\ url.protocol \in {"http:", "https:"}

NoAdapterCalled == \A c \in DOMAIN pCalls : pCalls[c] = 0

\* C16: a request whose URL is not a syntactically valid http/https URL has
\* failed as soon as it was made, with an InvalidUrlError (status 400, code
\* INVALID_URL); no adapter has been invoked, the executor was never entered
\* (no attempt, no delay) and the store is empty.
C16_InvalidUrlRejected ==
    (pPc # "idle" /\ ~IsHttpUrl(pReq.audioUrl)) =>
        /\ pPc = "failed" /\ pOut.tag = "error"
        /\ pOut.err = InvalidUrlError(pReq.audioUrl)
        /\ StatusCode(pOut.err) = 400 /\ ErrorCode(pOut.err) = "INVALID_URL"
        /\ NoAdapterCalled
        /\ rPc = "idle" /\ rLog = <<>>
        /\ store = <<>>

\* a request for a URL that parses but is not http/https was rejected
C16_Witness ==
    /\ pPc = "failed" /\ pReq.audioUrl.protocol = "ftp:"
    /\ pOut.tag = "error" /\ pOut.err.cls = "InvalidUrlError"
    /\ httpClient = "RealHttpClient"

\* the request failed because the download executor gave up
DownloadGaveUp == pPc = "failed" /\ rCtx = "download" /\ rPc = "raised"

\* maxAttempts of the configured retry policy is the whole number n
ConfiguredAttemptsIs(n) == ~cfg.fractional /\ cfg.maxAttempts = n

\* C17: the transport adapter is never invoked more than maxAttempts times of
\* the configured retry policy; when every fetch attempt has failed it was
\* invoked exactly maxAttempts times, the request fails with a DownloadError
\* (status 500, code DOWNLOAD_ERROR) that carries the message of the last
\* transport error, no recognition adapter was invoked and the store is empty.
C17_DownloadGivesUp ==
    /\ pCalls[httpClient] <= cfg.maxAttempts
    /\ DownloadGaveUp =>
          /\ rPolicy.maxAttempts = cfg.maxAttempts
          /\ ConfiguredAttemptsIs(pCalls[httpClient])
          /\ ConfiguredAttemptsIs(NumEvents(rLog, "fail"))
          /\ pOut.tag = "error" /\ pOut.err.cls = "DownloadError"
          /\ StatusCode(pOut.err) = 500 /\ ErrorCode(pOut.err) = "DOWNLOAD_ERROR"
          /\ cfg.maxAttempts >= 1 => pOut.err.msg = LastFailure(rLog).err.msg
          /\ pCalls["MockSpeechClient"] = 0 /\ pCalls["RealSpeechClient"] = 0
          /\ store = <<>>

\* the request failed because the recognition executor gave up
RecognizeGaveUp == pPc = "failed" /\ rCtx = "recognize" /\ rPc = "raised"

\* C18 as stated: when the recognition adapter has failed on every attempt it
\* was invoked exactly 3 times, the store is empty, and the error that reaches
\* the caller is reported with status 503, whatever the adapter failed with.
C18_RecognitionFailureIs503 ==
    RecognizeGaveUp =>
        /\ pCalls[speechClient] = AzureMaxAttempts
        /\ store = <<>>
        /\ pOut.tag = "error" /\ StatusCode(pOut.err) = 503

\* C19: only the adapters selected at startup are ever invoked; when the real
\* recognition adapter is the selected one and has failed on every attempt,
\* the request has failed, all 3 attempts went to the real adapter, and the
\* store is empty; and the provider service never persists a record whose text
\* does not come from the selected recognition adapter.
C19_NoFallbackToSimulated ==
    /\ \A c \in DOMAIN pCalls : c \notin {httpClient, speechClient} => pCalls[c] = 0
    /\ (RecognizeGaveUp /\ speechClient = "RealSpeechClient") =>
          /\ pOut.tag = "error"
          /\ pCalls["RealSpeechClient"] = AzureMaxAttempts
          /\ pCalls["MockSpeechClient"] = 0
          /\ store = <<>>
    /\ (pPc # "idle" /\ pReq.service = "AzureSpeechService") =>
          \A i \in 1..Len(store) : store[i].transcription.origin = speechClient

\* the real adapter failed three times; the mock adapter was not invoked
C19_Witness ==
    /\ RecognizeGaveUp /\ speechClient = "RealSpeechClient"
    /\ pCalls["RealSpeechClient"] = 3 /\ pCalls["MockSpeechClient"] = 0
    /\ NumEvents(rLog, "fail") = 3 /\ store = <<>>

----------------------------------------------------------------------------
(* The final message of the streaming session (checked under Spec) *)

\* the final message msg reports the stored record rec of this session
ReportsRecord(msg, rec) ==
    /\ msg.id = rec.id /\ msg.text = rec.transcription
    /\ rec.metadata.sessionId = SessionId

\* C20: every final message on the wire carries the id and the text of a
\* record that is in the store, whose metadata.sessionId is the session's id;
\* the step that sends a final message is the step in which that record is
\* persisted, and it leaves the connection closing: once a final message has
\* been sent the connection is never open.
C20_FinalAfterPersist ==
    /\ [](\A i \in 1..Len(sent) : sent[i].type = "final" =>
             \E j \in 1..Len(store) : ReportsRecord(sent[i], store[j]))
    /\ [](NumFinals(sent) >= 1 => sock # "open")
    /\ [][NumFinals(sent') > NumFinals(sent) =>
            /\ Len(store') = Len(store) + 1
            /\ sent' = Append(sent, sent'[Len(sent')])
            /\ ReportsRecord(sent'[Len(sent')], store'[Len(store')])
            /\ sock = "open" /\ sock' = "closing"]_vars

\* a session whose record was persisted and reported, the connection closing
C20_Witness ==
    /\ Len(store) = 1 /\ NumFinals(sent) = 1 /\ sock = "closing"
    /\ ReportsRecord(sent[Len(sent)], store[1])
    /\ store[1].metadata.chunkCount = 2

----------------------------------------------------------------------------
(* Properties of the list query and of the store (checked under SpecQuery) *)

\* the records of the store as it is that match the filter of the query under
\* way: created at or after its threshold, of its source when it names one
Selected ==
    {i \in 1..Len(store) :
        /\ store[i].createdAt >= qOut.threshold
        /\ qOut.source \in {"mock", "azure"} => store[i].source = qOut.source}

\* the record was created no more than qOut.days days before the query was
\* made, both instants read on the local clock (counted in half instants, as
\* days may be half a day more than a whole number)
NotOlderThanDays(rec) ==
    2 * LocalTime(cfg.calendar, rec.createdAt)
        + (2 * qOut.days.whole + (IF qOut.days.half THEN 1 ELSE 0)) * DayLength
      >= 2 * LocalTime(cfg.calendar, qOut.at)

\* the records the query under way is to select by the days it was given
SelectedByDays ==
    {i \in 1..Len(store) :
        /\ NotOlderThanDays(store[i])
        /\ qOut.source \in {"mock", "azure"} => store[i].source = qOut.source}

\* this step is the find of the query under way reading the store
FindAnswers == qOut # None /\ ~qOut.found /\ qOut' # None /\ qOut'.found

\* this step is the countDocuments of the query under way reading the store
CountAnswers == qOut # None /\ ~qOut.counted /\ qOut' # None /\ qOut'.counted

\* o lists the records of ids, each once, newest first
NewestFirst(o, ids) ==
    /\ DOMAIN o = 1..Cardinality(ids)
    /\ {o[i] : i \in DOMAIN o} = ids
    /\ \A i, j \in DOMAIN o : i < j => store[o[i]].createdAt >= store[o[j]].createdAt

\* page is the part of the listing o at positions first..last
IsPageOf(page, o, first, last) ==
    /\ Len(page) = IF Min(last, Len(o)) >= first THEN Min(last, Len(o)) - first + 1 ELSE 0
    /\ \A k \in 1..Len(page) :
          /\ page[k].id = store[o[first + k - 1]].id
          /\ page[k].createdAt = store[o[first + k - 1]].createdAt
          /\ page[k].source = store[o[first + k - 1]].source
          /\ page[k].transcription = store[o[first + k - 1]].transcription
          /\ page[k].audioUrl = store[o[first + k - 1]].audioUrl

\* C21: the items the find of a list query for (days, page, limit, source)
\* returns from the store it reads are the records whose createdAt is not older
\* than the instant of the query minus days, and whose source is the filter
\* when one is given, listed newest first and restricted to the positions
\* (page-1)*limit+1 .. page*limit of that listing.
C21_QuerySelectsWindowPage ==
    [][FindAnswers =>
          \E o \in [1..Cardinality(SelectedByDays) -> SelectedByDays] :
              /\ NewestFirst(o, SelectedByDays)
              /\ IsPageOf(qOut'.transcriptions, o,
                          (qOut.page - 1) * qOut.limit + 1,
                          qOut.page * qOut.limit)]_vars

\* k is the least number of pages of `limit` items that hold `count` items
IsCeiling(k, count, limit) ==
    /\ k >= 0 /\ k * limit >= count
    /\ k > 0 => (k - 1) * limit < count

\* C22: the count a list query reads is the number of all matching records of
\* the store it reads, the same for every requested page; the page it reads
\* holds at most limit items and is empty when no record matches; in the
\* response totalPages is ceil(count / limit), so count 0 gives totalPages 0.
C22_CountAndTotalPages ==
    /\ [][/\ CountAnswers =>
               /\ qOut'.total = Cardinality(Selected)
               /\ \A page \in 1..(MaxRecords + 1) :
                     \A other \in getRecentTranscriptions(store, cfg.calendar,
                                                          qOut.at, qOut.days,
                                                          page, qOut.limit,
                                                          qOut.source) :
                         other.count = qOut'.total
          /\ FindAnswers =>
               /\ Len(qOut'.transcriptions) <= qOut.limit
               /\ Selected = {} => qOut'.transcriptions = <<>>]_vars
    /\ [](QueryDone =>
             /\ QueryResponse.count = qOut.total
             /\ QueryResponse.limit = qOut.limit /\ QueryResponse.page = qOut.page
             /\ IsCeiling(QueryResponse.totalPages, QueryResponse.count, qOut.limit)
             /\ QueryResponse.count = 0 => QueryResponse.totalPages = 0)

\* two matching records listed with limit 1: page 1 holds one item of two pages
C22_Witness ==
    /\ QueryDone /\ Len(store) = 2 /\ qOut.limit = 1 /\ qOut.page = 1
    /\ QueryResponse.count = 2 /\ QueryResponse.totalPages = 2
    /\ Len(QueryResponse.transcriptions) = 1

\* the record was created by the mock batch service
BatchMockRecord(rec) ==
    rec.source = "mock" /\ \E req \in BatchRequests : rec.audioUrl = req.audioUrl.name

ItemIds(items) == {items[k].id : k \in 1..Len(items)}

\* C23: a list query filtered by a source returns only records of that source;
\* and every record that the batch path created with source 'mock' and that is
\* inside the day window of a query filtered by 'mock' is counted by it, and
\* is on the page it reads whenever the page holds all matching records.
C23_SourceRoundTrip ==
    /\ []((qOut # None /\ qOut.source \in {"mock", "azure"}) =>
             \A k \in 1..Len(qOut.transcriptions) :
                 qOut.transcriptions[k].source = qOut.source)
    /\ [][(qOut # None /\ qOut.source = "mock") =>
             \A i \in 1..Len(store) :
                 (/\ BatchMockRecord(store[i])
                  /\ store[i].createdAt >= qOut.threshold) =>
                     /\ CountAnswers => qOut'.total >= 1
                     /\ (FindAnswers /\ qOut.page = 1
                            /\ Cardinality(Selected) <= qOut.limit) =>
                           store[i].id \in ItemIds(qOut'.transcriptions)]_vars

\* the store holds a provider record and a mock batch record; the query
\* filtered by 'mock' returns the mock record and nothing else
C23_Witness ==
    /\ Len(store) = 2 /\ store[1].source = "azure" /\ BatchMockRecord(store[2])
    /\ QueryDone /\ qOut.source = "mock" /\ qOut.days = [whole |-> 0, half |-> FALSE]
    /\ ItemIds(qOut.transcriptions) = {store[2].id} /\ qOut.total = 1

\* C24: every step of the service keeps every stored record as it is (same
\* id, audio reference, text, source, language, metadata and createdAt) at the
\* same place, so the store only grows, by one record at a time; and the steps
\* of a list query (its call, its two reads and its response) leave the store
\* unchanged.
C24_StoreAppendOnly ==
    [][/\ Len(store') \in {Len(store), Len(store) + 1}
       /\ \A i \in 1..Len(store) : store'[i] = store[i]
       /\ qOut' # qOut => store' = store]_vars

\* a streaming record and a batch record were created on different days and
\* then listed: both are in the store under their own ids and dates
C24_Witness ==
    /\ Len(store) = 2 /\ QueryDone /\ qOut.total = 2
    /\ Len(qOut.transcriptions) = 2
    /\ store[1].metadata # None /\ store[1].createdAt = 0 /\ store[1].id = 1
    /\ BatchMockRecord(store[2]) /\ store[2].createdAt = DayLength /\ store[2].id = 2

----------------------------------------------------------------------------
(* Empty recognition results (checked under SpecPipeline) *)

\* the recognition adapter returned an empty text to the request
RecognizedNothing == pText # None /\ pText.empty

\* C25: no stored record has an empty text; a request whose recognition
\* adapter returned an empty text never completes: once it has passed the
\* create step it has failed with an error and the store is empty.
C25_NoEmptyTextPersisted ==
    /\ \A i \in 1..Len(store) : ~store[i].transcription.empty
    /\ RecognizedNothing =>
          /\ pPc \in {"create", "failed"}
          /\ store = <<>>
          /\ pPc = "failed" => pOut.tag = "error"

\* the provider recognized nothing; create rejected the document
C25_Witness ==
    /\ RecognizedNothing /\ pPc = "failed" /\ pCalls["RealSpeechClient"] >= 1
    /\ pOut.tag = "error" /\ pOut.err.cls = "MongooseValidationError"
    /\ store = <<>>

----------------------------------------------------------------------------
(* Properties of RealSpeechClient.transcribe (checked under SpecRecognizer) *)

TerminalEvents == {"sessionStopped", "canceled", "startFailed", "timeout"}

Terminals(log) == {k \in 1..Len(log) : log[k].e \in TerminalEvents}

\* the position of the first terminal event of a log that has one
FirstTerminal(log) == CHOOSE k \in Terminals(log) : \A j \in Terminals(log) : k <= j

\* the texts of the fragments recognized as speech among the first n events
RECURSIVE TextsUpTo(_, _)
TextsUpTo(log, n) ==
    IF n = 0 THEN <<>>
    ELSE IF log[n].e = "recognized" /\ log[n].fragment.reason = "RecognizedSpeech"
         THEN Append(TextsUpTo(log, n - 1), log[n].fragment.text)
         ELSE TextsUpTo(log, n - 1)

\* the timer fired before the provider signalled completion, cancellation or
\* a start failure
TimeoutCameFirst == Terminals(tLog) # {} /\ tLog[FirstTerminal(tLog)].e = "timeout"

\* C26 as stated: when the timeout is the first terminal event, the call
\* succeeds with the text accumulated so far if that text is not empty, and
\* fails with a recognition error if it is empty.
C26_TimeoutTextOrFailure ==
    TimeoutCameFirst =>
        LET text == Trim(TextsUpTo(tLog, FirstTerminal(tLog)))
        IN IF text # <<>>
           THEN tOutcome = [kind |-> "resolve", text |-> text]
           ELSE tOutcome.kind = "reject" /\ tOutcome.err.cls = "ExternalServiceError"

\* C27: the call is pending exactly while no terminal event has come; the
\* first terminal event settles it (session completion and a cancellation
\* that is no error resolve it, a cancellation by error and a start failure
\* reject it, the timeout does one or the other); a resolved call carries the
\* texts recognized before that event, in arrival order, trimmed; and once
\* settled the outcome never changes, whatever comes afterwards.
C27_SettlesOnceOnFirstTerminal ==
    /\ [](tPc = "listening" =>
            IF Terminals(tLog) = {} THEN tOutcome = None
            ELSE LET k == FirstTerminal(tLog)
                     resolves == \/ tLog[k].e = "sessionStopped"
                                 \/ tLog[k].e = "canceled" /\ tLog[k].reason # "Error"
                     rejects == \/ tLog[k].e = "startFailed"
                                \/ tLog[k].e = "canceled" /\ tLog[k].reason = "Error"
                 IN /\ tOutcome # None
                    /\ resolves => tOutcome.kind = "resolve"
                    /\ rejects => tOutcome.kind = "reject"
                    /\ tOutcome.kind = "resolve" =>
                          tOutcome.text = Trim(TextsUpTo(tLog, k)))
    /\ [][tOutcome # None => tOutcome' = tOutcome]_vars

\* resolved with "a b" at session completion; a fragment and the timeout that
\* came afterwards left the outcome as it was
C27_Witness ==
    /\ tOutcome = [kind |-> "resolve", text |-> <<"a", "b">>]
    /\ Len(tLog) = 5 /\ tLog[3].e = "sessionStopped"
    /\ tLog[4].e = "recognized" /\ tLog[5].e = "timeout"
    /\ Len(tText) = 3 /\ tTimer = "fired"

----------------------------------------------------------------------------
\* C28: adapter selection is a function of the process configuration,
\* evaluated once.  The transport adapter is the simulated one exactly when
\* the process runs in test mode; the recognition adapter is the real
\* provider one exactly when the key and the region are both present and
\* non-empty, the simulated one otherwise; the configuration, and with it the
\* selected instances, never change, and every adapter invocation of a
\* request goes to a selected instance.
PresentNonEmpty(x) == x = "secret"

SelectionFollowsConfig ==
    /\ httpClient \in {"MockHttpClient", "RealHttpClient"}
    /\ speechClient \in {"MockSpeechClient", "RealSpeechClient"}
    /\ (httpClient = "MockHttpClient") <=> cfg.isTest
    /\ (speechClient = "RealSpeechClient") <=>
          (PresentNonEmpty(cfg.speechKey) /\ PresentNonEmpty(cfg.speechRegion))
    /\ \A c \in DOMAIN pCalls :
          pCalls[c] > 0 => c \in {httpClient, speechClient}

C28_AdapterSelection ==
    /\ []SelectionFollowsConfig
    /\ [][/\ cfg' = cfg
          /\ httpClient' = httpClient
          /\ speechClient' = speechClient]_vars

\* a key without a region (empty string): the simulated recognizer served a request
C28_Witness ==
    /\ cfg.speechKey = "secret" /\ cfg.speechRegion = ""
    /\ pCalls["MockSpeechClient"] > 0
    /\ pPc = "done"

----------------------------------------------------------------------------
\* C29: when a session that is still receiving (no close and no transport
\* error so far) takes in its first well-formed chunk, the handler sends an
\* interior partial (a text and a confidence in [0, 1], here in hundredths)
\* in that very step, before any final message has gone out, whether or not
\* the chunk is also the last one; the outbound trace only grows, so every
\* final message of the session comes after that partial.
IsPrefix(a, b) == Len(a) <= Len(b) /\ \A i \in 1..Len(a) : a[i] = b[i]

FirstChunkWhileReceiving ==
    /\ Received
    /\ HandlerBranch(ev') = "chunk"
    /\ chunkCount = 0
    /\ ~isComplete

WellFormedPartial(msg) ==
    /\ IsInteriorPartial(msg)
    /\ msg.words > 0
    /\ msg.confidence \in 0..100

C29_FirstChunkYieldsPartial ==
    [][/\ IsPrefix(sent, sent')
       /\ FirstChunkWhileReceiving =>
             /\ NumFinals(sent) = 0
             /\ Len(sent') = Len(sent) + 1
             /\ WellFormedPartial(sent'[Len(sent')])]_vars

\* the first chunk was also the last one: welcome, interior partial, final
C29_Witness ==
    /\ chunkCount = 1 /\ lastSeen = 1
    /\ Len(sent) = 3
    /\ WellFormedPartial(sent[2])
    /\ sent[3].type = "final"

----------------------------------------------------------------------------
\* C30: an interior partial emitted when n chunks have been received carries
\* the first min(2n, 20) words of the vocabulary and the confidence
\* min(0.5 + 0.05 n, 0.95) (here in hundredths); hence along the outbound
\* trace of a session the word count and the confidence of the interior
\* partials never decrease, and no confidence exceeds 0.95.
WordsAt(n) == IF 2 * n <= 20 THEN 2 * n ELSE 20
ConfidenceAt(n) == IF 50 + 5 * n <= 95 THEN 50 + 5 * n ELSE 95

InteriorPartials(out) == {i \in 1..Len(out) : IsInteriorPartial(out[i])}

EmitsPartial == Len(sent') = Len(sent) + 1 /\ IsInteriorPartial(sent'[Len(sent')])

PartialsNeverDecrease ==
    /\ \A i \in InteriorPartials(sent) : sent[i].confidence <= 95
    /\ \A i, j \in InteriorPartials(sent) :
          i < j => /\ sent[i].words <= sent[j].words
                   /\ sent[i].confidence <= sent[j].confidence

C30_PartialWordsAndConfidence ==
    /\ []PartialsNeverDecrease
    /\ [][EmitsPartial =>
             /\ sent'[Len(sent')].words = WordsAt(chunkCount')
             /\ sent'[Len(sent')].confidence = ConfidenceAt(chunkCount')]_vars

\* both caps are in force after a partial below them was sent
C30_Witness ==
    /\ chunkCount > 10
    /\ \E i, j \in InteriorPartials(sent) :
          /\ i < j
          /\ sent[i].words < 20 /\ sent[i].confidence < 95
          /\ sent[j] = PartialMessage(audioChunks)
          /\ sent[j].words = 20 /\ sent[j].confidence = 95

----------------------------------------------------------------------------
\* C31: once the first chunk with isLast = true has been received, no step
\* changes chunkCount or the accumulated chunks, so every record of the
\* session carries, in its metadata and in its text, the number of chunks
\* received up to and including that chunk.
FinalizingFreezesChunks ==
    lastSeen > 0 => /\ chunkCount' = chunkCount
                    /\ audioChunks' = audioChunks

RecordsCountChunksAtLast ==
    \A i \in 1..Len(store) :
        /\ store[i].metadata.chunkCount = chunkCount
        /\ store[i].transcription.chunks = Len(audioChunks)

C31_LateChunksNotAccepted ==
    /\ [][FinalizingFreezesChunks]_vars
    /\ []RecordsCountChunksAtLast

----------------------------------------------------------------------------
\* C32: Closed and Failed are terminal.  Once the close handler or the error
\* handler has run, or the final message was sent and the connection closed,
\* an inbound message changes no session state, sends nothing and persists
\* nothing (neither at once nor by suspending a handler that would).
Terminated ==
    \/ sock # "open"
    \/ isComplete /\ lastSeen = 0

C32_TerminalStatesIgnoreMessages ==
    [][(Terminated /\ Received) =>
          UNCHANGED <<isComplete, chunkCount, audioChunks, loop, loopsStarted,
                      fin, sent, lastSeen, store>>]_vars

----------------------------------------------------------------------------
\* C33: a failed write of the session's record is fatal to the session.
\* Every last-chunk handler is still pending, has produced a record, or has
\* failed; once one has failed, no final message is sent, nothing is
\* persisted, and no inbound message starts another finalization.
PersistFailed == lastSeen > Cardinality(fin) + Len(store)

C33_PersistFailureIsFatal ==
    [][PersistFailed =>
          /\ NumFinals(sent') = NumFinals(sent)
          /\ store' = store
          /\ Received => fin' = fin]_vars

----------------------------------------------------------------------------
\* C34: within one request of the provider pipeline the steps are strictly
\* sequential.  Recognition starts only from a download that returned; the
\* recognition adapter is invoked only in the recognition phase and the
\* transport adapter only in the download phase, which is never entered
\* again (so a failed recognition attempt is followed by recognition
\* attempts only, and the payload is fetched at most once); the store
\* changes only in the create phase, which is entered only from a
\* recognition that returned, with the text it returned.
ProviderRequest == pReq # None /\ pReq.service = "AzureSpeechService"
TransportCalls == pCalls["MockHttpClient"] + pCalls["RealHttpClient"]
RecognitionCalls == pCalls["MockSpeechClient"] + pCalls["RealSpeechClient"]

StepsInOrder ==
    /\ (pPc' = "recognize" /\ pPc # "recognize") =>
          pPc = "download" /\ rCtx = "download" /\ rPc = "returned"
    /\ RecognitionCalls' # RecognitionCalls =>
          pPc = "recognize" /\ rCtx = "recognize"
    /\ TransportCalls' # TransportCalls =>
          pPc = "download" /\ rCtx = "download" /\ RecognitionCalls = 0
    /\ (pPc' = "download") => pPc = "download"
    /\ (rCtx = "download" /\ rPc = "returned") => TransportCalls' = TransportCalls
    /\ (pPc' = "create" /\ pPc # "create") =>
          /\ pPc = "recognize" /\ rCtx = "recognize" /\ rPc = "returned"
          /\ pText' = rResult.text
    /\ store' # store => pPc = "create" /\ pText # None

C34_ProviderStepsSequential == [][ProviderRequest => StepsInOrder]_vars

\* a recognition attempt failed and the next one succeeded: one download only
C34_Witness ==
    /\ ProviderRequest /\ pPc = "done"
    /\ TransportCalls = 1
    /\ RecognitionCalls = 2
    /\ Len(store) = 1

----------------------------------------------------------------------------
\* C35: liveness.  Once a chunk with isLast = true has been received, then,
\* unless the connection is lost before the final message or a write of the
\* record fails, the session eventually has sent the final message, has
\* closed the connection, and its emission loop has terminated.
SessionFinished ==
    /\ NumFinals(sent) > 0
    /\ sock # "open"
    /\ loop = "done"

ConnectionLost == sock # "open" /\ NumFinals(sent) = 0

C35_LastChunkLeadsToFinal ==
    (lastSeen > 0) ~> (SessionFinished \/ ConnectionLost \/ PersistFailed)

\* two chunks, the second one last: final sent, connection closing, loop over
C35_Witness ==
    /\ chunkCount = 2 /\ lastSeen = 1
    /\ SessionFinished
    /\ ~PersistFailed
    /\ Len(store) = 1

----------------------------------------------------------------------------
\* C36: the retry policy that configuration loading hands to the download
\* executor has maxAttempts >= 1 and maxDelay >= initialDelay, so a download
\* on a valid URL that fails has invoked the transport adapter at least once.
C36_AcceptedPolicyIsSane ==
    /\ ConfigRetryPolicy(cfg).maxAttempts >= 1
    /\ ConfigRetryPolicy(cfg).maxDelay >= ConfigRetryPolicy(cfg).initialDelay
    /\ DownloadGaveUp => TransportCalls >= 1

----------------------------------------------------------------------------
\* C37: at most one emission loop is started per session.  The loop has been
\* started exactly when a chunk has been accepted, the only step that starts
\* it is the one receiving the first accepted chunk, and no later chunk,
\* malformed message, failed write or connection event starts another.
AtMostOneLoop ==
    /\ loopsStarted <= 1
    /\ (loopsStarted = 1) <=> (chunkCount >= 1)
    /\ (loop = "none") <=> (loopsStarted = 0)

LoopStartedByFirstChunk ==
    loopsStarted' # loopsStarted =>
        /\ Received
        /\ HandlerBranch(ev') = "chunk"
        /\ chunkCount = 0 /\ chunkCount' = 1
        /\ loopsStarted = 0

C37_SingleEmissionLoop ==
    /\ []AtMostOneLoop
    /\ [][LoopStartedByFirstChunk]_vars

\* two chunks and a malformed message went by, a write failed: still one loop
C37_Witness ==
    /\ loopsStarted = 1
    /\ chunkCount = 2 /\ inCount = 3
    /\ PersistFailed
    /\ NumErrors(sent) = 2

----------------------------------------------------------------------------
\* C38: in every reachable state chunkCount equals the number of accumulated
\* chunks; neither ever decreases, and the accumulated chunks are only
\* appended, in order of receipt.
InOrderOfReceipt(chunks) ==
    \A i, j \in 1..Len(chunks) : i < j => chunks[i] < chunks[j]

CountMatchesChunks ==
    /\ chunkCount = Len(audioChunks)
    /\ InOrderOfReceipt(audioChunks)

OnlyAppended ==
    /\ chunkCount' >= chunkCount
    /\ IsPrefix(audioChunks, audioChunks')
    /\ audioChunks' # audioChunks =>
          /\ Received
          /\ audioChunks' = Append(audioChunks, inCount')
          /\ chunkCount' = chunkCount + 1

C38_ChunksAppendOnly ==
    /\ []CountMatchesChunks
    /\ [][OnlyAppended]_vars

\* a malformed message came between two chunks
C38_Witness ==
    /\ chunkCount = 2
    /\ audioChunks = <<1, 3>>

----------------------------------------------------------------------------
\* C39: on a fixed store, whatever the pages 1..totalPages of one list query
\* return, their items put one after the other list every matching record
\* exactly once, newest first; every page after totalPages is empty and has
\* the same count and totalPages.
PageResults(p) ==
    getRecentTranscriptions(store, cfg.calendar, qOut.at, qOut.days, p, qOut.limit,
                            qOut.source)

\* one possible result for each of the pages 1..n
PageRuns(n) ==
    {f \in [1..n -> UNION {PageResults(p) : p \in 1..n}] :
        \A p \in 1..n : f[p] \in PageResults(p)}

RECURSIVE ConcatPages(_, _)
ConcatPages(f, n) ==
    IF n = 0 THEN <<>> ELSE ConcatPages(f, n - 1) \o f[n].transcriptions

EachMatchOnceNewestFirst(items) ==
    /\ Len(items) = Cardinality(Selected)
    /\ {items[k].id : k \in 1..Len(items)} = {store[i].id : i \in Selected}
    /\ \A j, k \in 1..Len(items) : j < k => items[j].createdAt >= items[k].createdAt

C39_PagesPartitionMatches ==
    qOut # None =>
        \A r \in PageResults(1) :
            /\ \A f \in PageRuns(r.totalPages) :
                  EachMatchOnceNewestFirst(ConcatPages(f, r.totalPages))
            /\ \A p \in (r.totalPages + 1)..(MaxRecords + 1) :
                  \A beyond \in PageResults(p) :
                      /\ beyond.transcriptions = <<>>
                      /\ beyond.count = r.count
                      /\ beyond.totalPages = r.totalPages

====
